---- MODULE Spec2Model ----
(***************************************************************************)
(* A model of the semantic annotation core of VizuMarker:                  *)
(*   ld35_service/engine/sem_core.py   (analyze_text and its stages)       *)
(*   ld35_service/core/ld35_engine.py  (LD35Model composition and the      *)
(*                                      post-processing of annotations)   *)
(*                                                                         *)
(* Conventions.  A text is a sequence of one-character strings and an      *)
(* offset is a 0-based code-point index, as in Python; text[i] of the      *)
(* source is text[i + 1] here.  A Python list is a sequence.  A score is   *)
(* kept in thousandths (1.0 is 1000), so that every comparison the code    *)
(* makes on scores is a comparison of integers.                            *)
(***************************************************************************)
EXTENDS Integers, Sequences, FiniteSets

VARIABLES
    \* ---- resolve_overlaps / post_process_annotations on a list of hits
    anns,             \* the list handed in; resolve_overlaps rebinds it to sorted(anns)
    kept,             \* resolve_overlaps: the kept list
    cur_idx,          \* resolve_overlaps: position of "for current in anns"
    rpc,              \* "idle" | "loop" | "done" | "post"
    final_anns,       \* what resolve_overlaps returned
    resolved_anns,    \* what post_process_annotations returned
    \* ---- analyze_text(text, resources_dir), called on two threads
    input_text,            \* the text argument of both calls
    resources,             \* the files of resources_dir
    pc,                    \* per call: where the call stands
    canon,                 \* per call: the markers of the local canon
    promotion,             \* per call: the local promotion
    weights,               \* per call: the local weights
    rx_index,              \* per call: the local rx_index
    atomic_annotations,    \* per call: the local atomic_annotations
    composed_annotations,  \* per call: the local composed_annotations
    result,                \* per call: <<the dict returned>>, <<>> before the return
    \* ---- LD35Model.run_inference(text), the pattern fallback
    ld_text,               \* the text argument
    markers_index,         \* self.markers_index
    ld_weights,            \* self.weights
    promotion_rules,       \* self.promotion_rules
    ld_pc,                 \* where the call stands
    ld_atomic,             \* atomic_annotations
    marker_matches,        \* marker_matches
    ld_composed,           \* composed_annotations of _detect_composed_markers
    marker_pos,            \* position of the loop over self.markers_index.items()
    inference,             \* what run_inference returned
    \* ---- the two expression evaluators on one expression
    ev_pc,                 \* "off" | "start" | "done"
    ev_expr,               \* the parsed expression
    ev_env,                \* the environment / context
    ev_sem,                \* what eval_activation did: "true" | "false" | "raised"
    ev_ld,                 \* what _evaluate_expression did
    \* ---- chunk_text(text, chunk_size, overlap)
    ch_pc,                 \* "off" | "start" | "loop" | "done"
    ch_text,               \* the text argument
    chunk_size,            \* the chunk_size argument
    overlap,               \* the overlap argument
    ch_start,              \* start
    chunks,                \* chunks
    \* ---- DocumentStorage
    st_pc,                 \* "off" | "on"
    originals,             \* the files of originals/, per document
    annotation_files,      \* the files of annotations/, per document
    saved_text,            \* per document: the text of the last save that returned True
    saved_anns,            \* per document: the list of the last save that returned True
    loaded,                \* what the last load call returned
    \* ---- sentence_boundaries(text)
    sb_pc,                 \* "off" | "start" | "done"
    sb_text,               \* the text argument
    sb_out                 \* the list returned

resolveVars == <<anns, kept, cur_idx, rpc, final_anns, resolved_anns>>
analyzeVars == <<input_text, resources, pc, canon, promotion, weights, rx_index,
                 atomic_annotations, composed_annotations, result>>
ld35Vars == <<ld_text, markers_index, ld_weights, promotion_rules, ld_pc, ld_atomic,
              marker_matches, ld_composed, marker_pos, inference>>
evalVars == <<ev_pc, ev_expr, ev_env, ev_sem, ev_ld>>
chunkVars == <<ch_pc, ch_text, chunk_size, overlap, ch_start, chunks>>
storageVars == <<st_pc, originals, annotation_files, saved_text, saved_anns, loaded>>
splitVars == <<sb_pc, sb_text, sb_out>>
utilVars == <<evalVars, chunkVars, storageVars, splitVars>>
vars == <<resolveVars, analyzeVars, ld35Vars, utilVars>>

----------------------------------------------------------------------------
(* Generic helpers *)

Max(a, b) == IF a >= b THEN a ELSE b
Min(a, b) == IF a <= b THEN a ELSE b

Range(s) == {s[i] : i \in 1..Len(s)}

\* All sequences over S of length at most n
SeqsUpTo(S, n) == UNION {[1..k -> S] : k \in 0..n}

\* list.sort / sorted: a stable sort, ascending in the integer keys.
\* keys[i] is the key of s[i]; equal keys keep their input order: a pair
\* <<key, element>> is inserted after every pair whose key is not greater.
RECURSIVE InsertPair(_, _)
InsertPair(s, p) ==
    IF s = <<>> THEN <<p>>
    ELSE IF p[1] < s[Len(s)][1]
         THEN Append(InsertPair(SubSeq(s, 1, Len(s) - 1), p), s[Len(s)])
         ELSE Append(s, p)

RECURSIVE SortPairs(_, _)
SortPairs(ps, n) ==
    IF n = 0 THEN <<>> ELSE InsertPair(SortPairs(ps, n - 1), ps[n])

StableSort(s, keys) ==
    LET r == SortPairs([i \in 1..Len(s) |-> <<keys[i], s[i]>>], Len(s))
    IN  [i \in 1..Len(s) |-> r[i][2]]

\* a bound on every offset and length of the model, used to pack a tuple key
\* (x, y) into the integer x * KeyBase + y
KeyBase == 1000 * 1000

----------------------------------------------------------------------------
(* Text segmentation, sem_core.py *)

\* text[i] of the source, "" past the end
CharAt(text, i) == IF i >= 0 /\ i < Len(text) THEN text[i + 1] ELSE ""

\* text[a:b] of the source, for 0 <= a and b <= len(text)
Slice(text, a, b) == IF a < b THEN SubSeq(text, a + 1, b) ELSE <<>>

\* enders; the character U+2026 is written "ELLIPSIS"
Enders == {".", "!", "?", "ELLIPSIS"}

\* closing_chars: the characters of the raw string literal (the backslashes
\* included); the character U+00BB is written "RAQUO"
ClosingChars == {"\"", "RAQUO", "\\", "'", ")", "]", "}"}

\* str.isspace on the characters of the model
IsSpace(ch) == ch \in {" ", "\n", "\r", "\t"}

\* \w on the characters of the model
IsWordChar(ch) == ch \in {"a", "b", "c", "x", "y", "z", "_", "0", "1"}

\* while j < N and text[j] in closing_chars: j += 1
RECURSIVE SkipClosing(_, _)
SkipClosing(text, j) ==
    IF j < Len(text) /\ CharAt(text, j) \in ClosingChars
    THEN SkipClosing(text, j + 1)
    ELSE j

\* the while loop of sentence_boundaries, from position i with the current
\* sentence start and the spans found so far, and the final append
RECURSIVE SentenceScan(_, _, _, _)
SentenceScan(text, i, start, out) ==
    LET N == Len(text) IN
    IF i >= N
    THEN IF start < N THEN Append(out, <<start, N>>) ELSE out
    ELSE LET ch == CharAt(text, i)
             nxt == CharAt(text, i + 1)
             j == SkipClosing(text, i + 1)
         IN  IF ch \in Enders /\ (j >= N \/ IsSpace(CharAt(text, j)))
             THEN SentenceScan(text, j, j, Append(out, <<start, j>>))
             ELSE IF ch = "\n" /\ (nxt = "\n" \/ nxt = "\r")
                  THEN SentenceScan(text, i + 1, i + 1, Append(out, <<start, i>>))
                  ELSE SentenceScan(text, i + 1, start, out)

sentence_boundaries(text) == SentenceScan(text, 0, 0, <<>>)

----------------------------------------------------------------------------
(* Patterns.  A compiled regex of the model is a literal, optionally between
   two \b assertions: [lit |-> <<chars>>, wb |-> BOOLEAN].  The empty literal
   matches the empty string at every position.  A pattern source is
   [lit, wb, valid]; valid is FALSE for a source re.compile rejects. *)

\* \b at offset p of text
WordBoundaryAt(text, p) ==
    IsWordChar(CharAt(text, p - 1)) # IsWordChar(CharAt(text, p))

\* the pattern matches text[p : p + len(lit)]
MatchesAt(pattern, text, p) ==
    LET L == Len(pattern.lit) IN
    /\ p + L <= Len(text)
    /\ Slice(text, p, p + L) = pattern.lit
    /\ pattern.wb => (WordBoundaryAt(text, p) /\ WordBoundaryAt(text, p + L))

\* pattern.finditer(text): the non-overlapping matches from left to right; after
\* an empty match the scan moves on by one character
RECURSIVE FindIterFrom(_, _, _)
FindIterFrom(pattern, text, p) ==
    IF p > Len(text) THEN <<>>
    ELSE IF MatchesAt(pattern, text, p)
         THEN LET e == p + Len(pattern.lit)
              IN  <<<<p, e>>>> \o FindIterFrom(pattern, text, IF e = p THEN p + 1 ELSE e)
         ELSE FindIterFrom(pattern, text, p + 1)

FindIter(pattern, text) == FindIterFrom(pattern, text, 0)

\* pattern.fullmatch(s)
FullMatch(pattern, s) == MatchesAt(pattern, s, 0) /\ Len(pattern.lit) = Len(s)

\* re.compile over a list of {regex, flags}: a pattern that does not compile
\* is reported and skipped
RECURSIVE CompileAll(_)
CompileAll(specs) ==
    IF specs = <<>> THEN <<>>
    ELSE IF ~Head(specs).valid
         THEN CompileAll(Tail(specs))
         ELSE <<Head(specs)>> \o CompileAll(Tail(specs))

----------------------------------------------------------------------------
(* Dictionaries.  A dict is a sequence of <<key, value>> pairs in insertion
   order. *)

DictHas(d, k) == \E i \in 1..Len(d) : d[i][1] = k

DictGet(d, k, default) ==
    IF DictHas(d, k) THEN d[CHOOSE i \in 1..Len(d) : d[i][1] = k][2] ELSE default

\* d[k] = v: an existing key keeps its place
DictSet(d, k, v) ==
    IF DictHas(d, k)
    THEN [i \in 1..Len(d) |-> IF d[i][1] = k THEN <<k, v>> ELSE d[i]]
    ELSE Append(d, <<k, v>>)

RECURSIVE SumSeq(_)
SumSeq(s) == IF s = <<>> THEN 0 ELSE Head(s) + SumSeq(Tail(s))

\* sum(d.values())
DictSum(d) == SumSeq([i \in 1..Len(d) |-> d[i][2]])

\* [x for x in s if Keep(x)]
RECURSIVE FilterSeq(_, _)
FilterSeq(s, keep) ==
    IF s = <<>> THEN <<>>
    ELSE IF Head(s) \in keep
         THEN <<Head(s)>> \o FilterSeq(Tail(s), keep)
         ELSE FilterSeq(Tail(s), keep)

RECURSIVE Flatten(_)
Flatten(ss) == IF ss = <<>> THEN <<>> ELSE Head(ss) \o Flatten(Tail(ss))

\* a file of resources_dir is [state, content], state being "absent",
\* "unparseable" or "object".  A guarded load: the content, or {} when the
\* file is missing or does not parse
LoadOrEmpty(file) == IF file.state = "object" THEN file.content ELSE <<>>

----------------------------------------------------------------------------
(* Canon and atomic detection, sem_core.py.  A marker record of the
   canonical file is
     [id, kind, detects, demote_if, composed_of, has_activation, activation,
      has_span_policy, span_policy]
   where a list-valued key the record does not have holds the empty list (the
   default of every m.get(key, []) of the source), and has_activation and
   has_span_policy tell whether the record has these keys. *)

\* the id field of a record that has no key "id"
NoId == "(no id)"

\* Canon.__init__: by_id = {m["id"]: m for m in markers} raises KeyError on a
\* record without an id
CanonRaises(markers) == \E m \in Range(markers) : m.id = NoId

\* Canon.__init__: atomics and composed, in file order
CanonAtomics(markers) == FilterSeq(markers, {m \in Range(markers) : m.kind = "atomic"})
CanonComposed(markers) == FilterSeq(markers, {m \in Range(markers) : m.kind = "composed"})

\* compile_atomic_regex: rx[m["id"]] = (patterns, demote_patterns)
RECURSIVE CompileInto(_, _)
CompileInto(rx, atomics) ==
    IF atomics = <<>> THEN rx
    ELSE LET m == Head(atomics)
         IN  CompileInto(
                 DictSet(rx, m.id, <<CompileAll(m.detects),
                                     CompileAll(m.demote_if)>>),
                 Tail(atomics))

compile_atomic_regex(markers) == CompileInto(<<>>, CanonAtomics(markers))

\* a variant of should_demote_match that keeps the primary check only
should_demote_fullmatch_only(text, start, end, demote_patterns) ==
    /\ demote_patterns # <<>>
    /\ \E pattern \in Range(demote_patterns) :
           FullMatch(pattern, Slice(text, start, end))

\* should_demote_match
should_demote_match(text, start, end, demote_patterns) ==
    /\ demote_patterns # <<>>
    /\ \/ \E pattern \in Range(demote_patterns) :
              FullMatch(pattern, Slice(text, start, end))
       \/ \E pattern \in Range(demote_patterns) :
              \E match \in Range(FindIter(pattern, text)) :
                  ~(match[2] <= start \/ match[1] >= end)

\* marker_id.split("_", 1)[0]: the prefix before the first "_", for the
\* marker ids of the model
IdPrefix(marker_id) ==
    CASE marker_id \in {"ATO_A", "ATO_B"} -> "ATO"
      [] marker_id \in {"SEM_AB", "SEM_A"} -> "SEM"
      [] marker_id = "CLU_AB"   -> "CLU"
      [] marker_id = "MEMA_AB"  -> "MEMA"
      [] marker_id = "DEESC_AB" -> "DEESC"
      [] marker_id = "ENT_X"    -> "ENT"
      [] marker_id = "sem_ab"   -> "sem"
      [] OTHER                  -> marker_id

\* str.upper on the prefixes of the model
Upper(str) == IF str = "sem" THEN "SEM" ELSE str

\* the hits of one pattern of one marker, in match order
HitsOfPattern(text, marker_id, pattern, demote_patterns) ==
    LET ms == FindIter(pattern, text)
        ok == {i \in 1..Len(ms) :
                 /\ ~(ms[i][2] <= ms[i][1])
                 /\ ~should_demote_match(text, ms[i][1], ms[i][2], demote_patterns)}
        all == [i \in 1..Len(ms) |->
                 [marker_id |-> marker_id, family |-> Upper(IdPrefix(marker_id)),
                  start |-> ms[i][1], end |-> ms[i][2], score |-> 1000]]
    IN  FilterSeq(all, {all[i] : i \in ok})

\* the sort key of detect_atomics: (start, -end)
AtomicKey(a) == a.start * KeyBase - a.end

\* detect_atomics
detect_atomics(text, rx) ==
    LET found == Flatten([m \in 1..Len(rx) |->
                    Flatten([k \in 1..Len(rx[m][2][1]) |->
                        HitsOfPattern(text, rx[m][1], rx[m][2][1][k],
                                      rx[m][2][2])])])
    IN  StableSort(found, [i \in 1..Len(found) |-> AtomicKey(found[i])])

----------------------------------------------------------------------------
(* Safe evaluation of activation formulas, sem_core.py.  An expression is
   the tree ast.parse gives:
     [node |-> "BoolOp", op, values]          op is "And" or "Or"
     [node |-> "Compare", left, ops, comparators]
     [node |-> "Not", operand]                 UnaryOp with ast.Not
     [node |-> "Name", id]
     [node |-> "Constant", value]
     [node |-> k] for any other node kind k (BinOp, Call, Attribute, ...)
   and [node |-> "SyntaxError"] for a string ast.parse rejects,
   [node |-> "Empty"] for an empty or missing string.  Numbers are kept in
   thousandths; True is 1000 and False is 0.  An evaluation gives
   [ok |-> TRUE, v |-> value] or, when it raises, [ok |-> FALSE, v |-> 0]. *)

Raised == [ok |-> FALSE, v |-> 0]
Value(x) == [ok |-> TRUE, v |-> x]
BoolValue(b) == Value(IF b THEN 1000 ELSE 0)

\* OPS[type(op)](left, right); an operator that is not a key of OPS raises
OpKnown(op) == op \in {"Gt", "GtE", "Lt", "LtE", "Eq", "NotEq"}

OpApply(op, left, right) ==
    CASE op = "Gt"    -> left > right
      [] op = "GtE"   -> left >= right
      [] op = "Lt"    -> left < right
      [] op = "LtE"   -> left <= right
      [] op = "Eq"    -> left = right
      [] op = "NotEq" -> left # right

\* a variant in which a name the environment lacks counts as True
NameValueTrue(env, id) == DictGet(env, id, 1000)

\* env.get(node.id, 0)
NameValue(env, id) == DictGet(env, id, 0)

RECURSIVE EvalNode(_, _)
RECURSIVE EvalCompare(_, _, _, _, _)

\* the loop "for op, right in zip(node.ops, node.comparators)" from index k
EvalCompare(left, ops, comparators, k, env) ==
    IF k > Len(ops) \/ k > Len(comparators) THEN BoolValue(TRUE)
    ELSE LET right == EvalNode(comparators[k], env)
         IN  IF ~right.ok \/ ~OpKnown(ops[k]) THEN Raised
             ELSE IF ~OpApply(ops[k], left, right.v) THEN BoolValue(FALSE)
             ELSE EvalCompare(right.v, ops, comparators, k + 1, env)

\* _eval
EvalNode(node, env) ==
    CASE node.node = "BoolOp" ->
            LET vals == [i \in 1..Len(node.values) |-> EvalNode(node.values[i], env)]
            IN  IF \E i \in 1..Len(vals) : ~vals[i].ok THEN Raised
                ELSE IF node.op = "Or"
                     THEN BoolValue(\E i \in 1..Len(vals) : vals[i].v # 0)
                     ELSE BoolValue(\A i \in 1..Len(vals) : vals[i].v # 0)
      [] node.node = "Compare" ->
            LET left == EvalNode(node.left, env)
            IN  IF ~left.ok THEN Raised
                ELSE EvalCompare(left.v, node.ops, node.comparators, 1, env)
      [] node.node = "Not" ->
            LET operand == EvalNode(node.operand, env)
            IN  IF ~operand.ok THEN Raised ELSE BoolValue(operand.v = 0)
      [] node.node = "Name" -> Value(NameValue(env, node.id))
      [] node.node = "Constant" -> Value(node.value)
      [] OTHER -> Raised

\* eval_activation
eval_activation(expr, env) ==
    IF expr.node = "Empty" THEN TRUE
    ELSE IF expr.node = "SyntaxError" THEN FALSE
    ELSE LET value == EvalNode(expr, env)
         IN  value.ok /\ value.v # 0

----------------------------------------------------------------------------
(* Span policies, sem_core.py.  Sentence indices are 0-based as in the source;
   sentences[i] of the source is sentences[i + 1] here. *)

\* the while loop of sentence_union
RECURSIVE SentenceUnionLoop(_, _, _, _, _)
SentenceUnionLoop(N, iL, iR, need, step) ==
    IF need > 0 /\ (iL > 0 \/ iR < N - 1)
    THEN IF step % 2 = 0 /\ iR < N - 1
         THEN SentenceUnionLoop(N, iL, iR + 1, need - 1, step + 1)
         ELSE IF iL > 0
              THEN SentenceUnionLoop(N, iL - 1, iR, need - 1, step + 1)
              ELSE SentenceUnionLoop(N, iL, iR, need - 1, step + 1)
    ELSE <<iL, iR>>

sentence_union(sentences, iL, iR, max_sent) ==
    LET r == SentenceUnionLoop(Len(sentences), iL, iR,
                               Max(1, max_sent) - (iR - iL + 1), 0)
    IN  <<sentences[r[1] + 1][1], sentences[r[2] + 1][2]>>

\* text.rfind(ch, 0, hi): the last index below hi holding ch, or -1
RFind(text, ch, hi) ==
    LET at == {i \in 0..(Min(hi, Len(text)) - 1) : CharAt(text, i) = ch}
    IN  IF at = {} THEN -1 ELSE CHOOSE i \in at : \A k \in at : k <= i

\* text.find(ch, lo): the first index from lo on holding ch, or -1
Find(text, ch, lo) ==
    LET at == {i \in Max(lo, 0)..(Len(text) - 1) : CharAt(text, i) = ch}
    IN  IF at = {} THEN -1 ELSE CHOOSE i \in at : \A k \in at : i <= k

clause_union(text, start, end) ==
    LET left_bound == Max(RFind(text, ",", start), RFind(text, ";", start))
        start2 == IF left_bound >= 0 THEN left_bound + 1 ELSE start
        right_comma == Find(text, ",", end)
        right_semi == Find(text, ";", end)
        right_bounds == {x \in {right_comma, right_semi} : x # -1}
        end2 == IF right_bounds # {}
                THEN CHOOSE x \in right_bounds : \A y \in right_bounds : x <= y
                ELSE end
    IN  <<Max(0, start2), Min(Len(text), end2)>>

\* the index of the first sentence with s_start <= pos < s_end, or -1 for None
FirstSentenceWith(sentences, pos) ==
    LET at == {i \in 0..(Len(sentences) - 1) :
                 sentences[i + 1][1] <= pos /\ pos < sentences[i + 1][2]}
    IN  IF at = {} THEN -1 ELSE CHOOSE i \in at : \A k \in at : i <= k

\* the last i the loop assigns to iL (s_start <= start < s_end), else the default
LastSentenceWithStart(sentences, start, default) ==
    LET at == {i \in 0..(Len(sentences) - 1) :
                 sentences[i + 1][1] <= start /\ start < sentences[i + 1][2]}
    IN  IF at = {} THEN default ELSE CHOOSE i \in at : \A k \in at : k <= i

\* the last i the loop assigns to iR (s_start < end <= s_end), else the default
LastSentenceWithEnd(sentences, end, default) ==
    LET at == {i \in 0..(Len(sentences) - 1) :
                 sentences[i + 1][1] < end /\ end <= sentences[i + 1][2]}
    IN  IF at = {} THEN default ELSE CHOOSE i \in at : \A k \in at : k <= i

chars_per_token == 4

\* apply_span_policy.  A policy is [mode, max_sentence_span, window_tokens,
\* fallback], each key holding its default when the bundle leaves it out
\* (mode "anchor_window", max_sentence_span 1, window_tokens <<-8, 8>>).
apply_span_policy(policy, text, sentences, start, end) ==
    IF policy.mode = "sentence_union"
    THEN LET mid == (start + end) \div 2
             sent_idx == FirstSentenceWith(sentences, mid)
         IN  IF sent_idx = -1 THEN <<start, end>>
             ELSE sentence_union(sentences,
                                 LastSentenceWithStart(sentences, start, sent_idx),
                                 LastSentenceWithEnd(sentences, end, sent_idx),
                                 policy.max_sentence_span)
    ELSE IF policy.mode = "clause_union"
    THEN clause_union(text, start, end)
    ELSE LET left_expand == policy.window_tokens[1] * chars_per_token
             right_expand == policy.window_tokens[2] * chars_per_token
         IN  <<Max(0, start + left_expand), Min(Len(text), end + right_expand)>>

----------------------------------------------------------------------------
(* Composition, sem_core.py *)

\* per_sent[k]: the atomic hits whose midpoint lies in sentence k, in order
PerSentence(sentences, atomics, k) ==
    FilterSeq(atomics,
              {a \in Range(atomics) :
                   FirstSentenceWith(sentences, (a.start + a.end) \div 2) = k})

\* weights_map: child id -> weight, a later entry of the same child replacing
\* the earlier one
RECURSIVE WeightsMap(_, _)
WeightsMap(wm, composed_of) ==
    IF composed_of = <<>> THEN wm
    ELSE WeightsMap(DictSet(wm, Head(composed_of).marker_id, Head(composed_of).weight),
                    Tail(composed_of))

\* counts = {marker_id: 0 for marker_id in needed_ids}
RECURSIVE ZeroCounts(_, _)
ZeroCounts(counts, composed_of) ==
    IF composed_of = <<>> THEN counts
    ELSE ZeroCounts(DictSet(counts, Head(composed_of).marker_id, 0), Tail(composed_of))

\* counts[atomic["marker_id"]] += 1 for the atomics of the window
RECURSIVE CountAtomics(_, _)
CountAtomics(counts, window_atomics) ==
    IF window_atomics = <<>> THEN counts
    ELSE LET id == Head(window_atomics).marker_id
         IN  CountAtomics(IF DictHas(counts, id)
                          THEN DictSet(counts, id, DictGet(counts, id, 0) + 1)
                          ELSE counts,
                          Tail(window_atomics))

\* the counts of a window, with counts["total_children"]
WindowCounts(sentences, atomics, composed_of, i0, iR) ==
    LET window_atomics == Flatten([k \in 1..(iR - i0 + 1) |->
                                      PerSentence(sentences, atomics, i0 + k - 1)])
        counts == CountAtomics(ZeroCounts(<<>>, composed_of), window_atomics)
    IN  DictSet(counts, "total_children", DictSum(counts))

\* the activation environment: the counts, as numbers in thousandths
CountsEnv(counts) == [i \in 1..Len(counts) |-> <<counts[i][1], counts[i][2] * 1000>>]

\* round(x / y, 3) in thousandths, for x >= 0 and y > 0
RoundedRatio(x, y) == (2000 * x + y) \div (2 * y)

\* score = present_weight / total_weight, rounded
WindowScore(counts, weights_map) ==
    LET present == {i \in 1..Len(counts) :
                       DictHas(weights_map, counts[i][1]) /\ counts[i][2] > 0}
        present_weight == SumSeq([i \in 1..Len(counts) |->
                              IF i \in present THEN DictGet(weights_map, counts[i][1], 0)
                              ELSE 0])
        weight_sum == DictSum(weights_map)
        total_weight == IF weight_sum = 0 THEN 1 ELSE weight_sum
    IN  RoundedRatio(present_weight, total_weight)

\* marker.get("activation", "total_children >= 1")
DefaultActivation ==
    [node |-> "Compare", left |-> [node |-> "Name", id |-> "total_children"],
     ops |-> <<"GtE">>, comparators |-> <<[node |-> "Constant", value |-> 1000]>>]

\* marker.get("span_policy", {"mode": "sentence_union", "max_sentence_span": 1})
DefaultSpanPolicy ==
    [mode |-> "sentence_union", max_sentence_span |-> 1,
     window_tokens |-> <<-8, 8>>, fallback |-> "none"]

MarkerActivation(marker) ==
    IF marker.has_activation THEN marker.activation ELSE DefaultActivation

MarkerSpanPolicy(marker) ==
    IF marker.has_span_policy THEN marker.span_policy ELSE DefaultSpanPolicy

\* the body of the window loop: the composed hit of window (i0, window_size),
\* as a list of one hit, or the empty list when the window is skipped
WindowHit(text, sentences, atomics, marker, i0, window_size) ==
    LET iR == Min(Len(sentences) - 1, i0 + window_size - 1)
        counts == WindowCounts(sentences, atomics, marker.composed_of, i0, iR)
        span_policy == MarkerSpanPolicy(marker)
        span == apply_span_policy(span_policy, text, sentences,
                                  sentences[i0 + 1][1], sentences[iR + 1][2])
    IN  IF DictGet(counts, "total_children", 0) = 0 THEN <<>>
        ELSE IF ~eval_activation(MarkerActivation(marker), CountsEnv(counts)) THEN <<>>
        ELSE << [marker_id |-> marker.id,
                 family |-> Upper(IdPrefix(marker.id)),
                 start |-> span[1],
                 end |-> span[2],
                 score |-> WindowScore(counts, WeightsMap(<<>>, marker.composed_of))] >>

\* "for window_size in range(1, max_span_sentences + 1)" with its break
RECURSIVE FirstWindowHit(_, _, _, _, _, _)
FirstWindowHit(text, sentences, atomics, marker, i0, window_size) ==
    IF window_size > MarkerSpanPolicy(marker).max_sentence_span THEN <<>>
    ELSE LET h == WindowHit(text, sentences, atomics, marker, i0, window_size)
         IN  IF h # <<>> THEN h
             ELSE FirstWindowHit(text, sentences, atomics, marker, i0, window_size + 1)

\* the hits of one composed marker: "for i0 in range(len(sentences))"
ComposeMarker(text, sentences, atomics, marker) ==
    IF marker.composed_of = <<>> THEN <<>>
    ELSE Flatten([k \in 1..Len(sentences) |->
                     FirstWindowHit(text, sentences, atomics, marker, k - 1, 1)])

\* compose; the promotion and weights arguments are not read
compose(text, markers, atomics, promotion_cfg, weights_cfg) ==
    LET sentences == sentence_boundaries(text)
        composed == CanonComposed(markers)
    IN  Flatten([m \in 1..Len(composed) |->
                    ComposeMarker(text, sentences, atomics, composed[m])])

----------------------------------------------------------------------------
(* Overlap resolution, sem_core.py *)

\* FAMILY_ORDER.get(family, 9)
FAMILY_ORDER(family) ==
    CASE family = "SEM"   -> 0
      [] family = "CLU"   -> 1
      [] family = "ATO"   -> 2
      [] family = "MEMA"  -> 3
      [] family = "DEESC" -> 4
      [] OTHER            -> 9

SpanLen(a) == a.end - a.start

\* Overlaps with the last position of existing left out (an off-by-one)
OverlapsOffByOne(current, existing) ==
    ~(current.end <= existing.start \/ current.start >= existing.end - 1)

\* not (current.end <= existing.start or current.start >= existing.end)
Overlaps(current, existing) ==
    ~(current.end <= existing.start \/ current.start >= existing.end)

\* the sort key of resolve_overlaps: (start, -(end - start))
ResolveKey(a) == a.start * KeyBase - SpanLen(a)

\* resolve_overlaps without its sorted() call
SortedForResolveOmitted(a) == a

SortedForResolve(a) == StableSort(a, [i \in 1..Len(a) |-> ResolveKey(a[i])])

\* CurrentWins with the score compared before the family rank
CurrentWinsScoreFirst(current, existing) ==
    LET cur_family_rank == FAMILY_ORDER(current.family)
        existing_family_rank == FAMILY_ORDER(existing.family)
    IN  \/ current.score > existing.score
        \/ current.score = existing.score /\ cur_family_rank < existing_family_rank
        \/ /\ cur_family_rank = existing_family_rank
           /\ current.score = existing.score
           /\ SpanLen(current) > SpanLen(existing)

\* the condition under which current replaces existing
CurrentWins(current, existing) ==
    LET cur_family_rank == FAMILY_ORDER(current.family)
        existing_family_rank == FAMILY_ORDER(existing.family)
    IN  \/ cur_family_rank < existing_family_rank
        \/ cur_family_rank = existing_family_rank /\ current.score > existing.score
        \/ /\ cur_family_rank = existing_family_rank
           /\ current.score = existing.score
           /\ SpanLen(current) > SpanLen(existing)

\* the indices j of kept at which current overlaps
OverlapIdx(k, current) == {j \in 1..Len(k) : Overlaps(current, k[j])}

FirstIdx(S) == CHOOSE j \in S : \A i \in S : j <= i

\* ResolveIter with the winner written to kept[0] instead of kept[j]
ResolveIterWrongIndex(k, current) ==
    LET hit == OverlapIdx(k, current)
    IN  IF hit = {} THEN Append(k, current)
        ELSE LET j == FirstIdx(hit)
             IN  IF CurrentWins(current, k[j])
                 THEN [k EXCEPT ![1] = current]
                 ELSE k

\* one iteration of "for current in anns": the first overlapping kept item
\* decides; current replaces it or is dropped; without overlap it is appended
ResolveIter(k, current) ==
    LET hit == OverlapIdx(k, current)
    IN  IF hit = {} THEN Append(k, current)
        ELSE LET j == FirstIdx(hit)
             IN  IF CurrentWins(current, k[j])
                 THEN [k EXCEPT ![j] = current]
                 ELSE k

RECURSIVE ResolveLoop(_, _)
ResolveLoop(k, rest) ==
    IF rest = <<>> THEN k
    ELSE ResolveLoop(ResolveIter(k, Head(rest)), Tail(rest))

resolve_overlaps(a) == ResolveLoop(<<>>, SortedForResolve(a))

----------------------------------------------------------------------------
(* LD35Model, ld35_engine.py: the pattern fallback of run_inference.  The
   entries of markers_index are the marker records of the canonical file; next
   to the keys sem_core reads, LD35Model reads
     min_score (0 when the record has none), family ("" when it has none),
     has_scoring and scoring_weight (the number under scoring.weight).
   marker_definitions is empty: no _Marker_5.0 directory exists. *)

\* _get_marker_type_from_id, for marker ids with a "_" in them
get_marker_type_from_id(marker_id) ==
    IF IdPrefix(marker_id) \in {"ATO", "SEM", "CLU", "MEMA"}
    THEN IdPrefix(marker_id)
    ELSE "SEM"

\* _get_marker_score
get_marker_score(marker_data) ==
    IF ~marker_data.has_scoring THEN 700
    ELSE LET top == marker_data.scoring_weight
             score == IF top > 1000 THEN Min(1000, top \div 2) ELSE top
         IN  Max(300, score)

\* the characters re.escape writes with a backslash, so that the source of a
\* literal holding one of them has a regex indicator in it
EscapedChars == {".", " ", "!", "?", "(", ")", "[", "]", "{", "}", "\\"}

\* add_regex: the empty source is dropped; a source without regex indicators
\* is put between two \b; anything else is kept as it is.  The source of a
\* literal is what re.escape gives for it, and a source that ends in an
\* escaped blank loses the blank to strip() and no longer compiles.
add_regex(pattern) ==
    IF pattern.valid /\ pattern.lit = <<>> /\ ~pattern.wb THEN <<>>
    ELSE IF ~pattern.valid \/ pattern.wb THEN <<pattern>>
    ELSE IF pattern.lit[Len(pattern.lit)] = " " THEN <<[pattern EXCEPT !.valid = FALSE]>>
    ELSE IF \E i \in 1..Len(pattern.lit) : pattern.lit[i] \in EscapedChars THEN <<pattern>>
    ELSE <<[pattern EXCEPT !.wb = TRUE]>>

\* _collect_marker_signals: the regex specs of the detects of the entry (the
\* entries have no pattern, frame or examples, so no literal terms)
collect_marker_signals(marker_data) ==
    Flatten([i \in 1..Len(marker_data.detects) |-> add_regex(marker_data.detects[i])])

\* the spans not yet in seen, in order, each once
RECURSIVE NewSpans(_, _)
NewSpans(spans, seen) ==
    IF spans = <<>> THEN <<>>
    ELSE IF Head(spans) \in seen \/ Head(spans)[1] = Head(spans)[2]
         THEN NewSpans(Tail(spans), seen)
         ELSE <<Head(spans)>> \o NewSpans(Tail(spans), seen \cup {Head(spans)})

\* the spans one marker contributes: the matches of its compiled patterns,
\* empty matches and spans already seen for the marker left out
MarkerSpans(doc, marker_data) ==
    LET compiled == CompileAll(collect_marker_signals(marker_data))
    IN  NewSpans(Flatten([k \in 1..Len(compiled) |-> FindIter(compiled[k], doc)]), {})

\* family_order.get(self._get_marker_type_from_id(kv[0]), 4)
PatternFamilyOrder(marker_id) ==
    CASE get_marker_type_from_id(marker_id) = "ATO"  -> 0
      [] get_marker_type_from_id(marker_id) = "SEM"  -> 1
      [] get_marker_type_from_id(marker_id) = "CLU"  -> 2
      [] get_marker_type_from_id(marker_id) = "MEMA" -> 3
      [] OTHER -> 4

\* marker_items: the items of markers_index, sorted by family order
MarkerItems(index) ==
    StableSort(index, [i \in 1..Len(index) |-> PatternFamilyOrder(index[i][1])])

\* the annotations of one marker
MarkerAnnotations(doc, marker_id, marker_data) ==
    LET spans == MarkerSpans(doc, marker_data)
    IN  [i \in 1..Len(spans) |->
            [marker_id |-> marker_id,
             family |-> get_marker_type_from_id(marker_id),
             start |-> spans[i][1], end |-> spans[i][2],
             score |-> get_marker_score(marker_data)]]

\* marker_matches[marker_id].append(...) for the markers with a match
RECURSIVE CollectMatches(_, _, _)
CollectMatches(doc, items, matches) ==
    IF items = <<>> THEN matches
    ELSE LET spans == MarkerSpans(doc, Head(items)[2])
         IN  CollectMatches(doc, Tail(items),
                            IF spans = <<>> THEN matches
                            ELSE DictSet(matches, Head(items)[1], spans))

\* _pattern_based_detection: <<annotations, marker_matches>>
pattern_based_detection(doc, index) ==
    IF index = <<>> THEN << <<>>, <<>> >>
    ELSE LET items == MarkerItems(index)
         IN  << Flatten([i \in 1..Len(items) |->
                            MarkerAnnotations(doc, items[i][1], items[i][2])]),
                CollectMatches(doc, items, <<>>) >>

----------------------------------------------------------------------------
(* LD35Model: sentences, tokens and span policies *)

\* the characters [.!?\n] of the sentence regex
IsTerminator(ch) == ch \in {".", "!", "?", "\n"}

\* the end of the run of characters satisfying the class, from position p
RECURSIVE RunEnd(_, _, _)
RunEnd(doc, p, class) ==
    IF p < Len(doc) /\ CharAt(doc, p) \in class THEN RunEnd(doc, p + 1, class) ELSE p

\* the end of the run of non-terminators from position p
RECURSIVE BodyEnd(_, _)
BodyEnd(doc, p) ==
    IF p < Len(doc) /\ ~IsTerminator(CharAt(doc, p)) THEN BodyEnd(doc, p + 1) ELSE p

\* re.finditer(r'[^.!?\n]+(?:[.!?]+|\n+)', text) from position p
RECURSIVE SentenceMatches(_, _)
SentenceMatches(doc, p) ==
    IF p >= Len(doc) THEN <<>>
    ELSE IF IsTerminator(CharAt(doc, p)) THEN SentenceMatches(doc, p + 1)
    ELSE LET b == BodyEnd(doc, p)
         IN  IF b >= Len(doc) THEN <<>>
             ELSE LET e == IF CharAt(doc, b) = "\n"
                           THEN RunEnd(doc, b, {"\n"})
                           ELSE RunEnd(doc, b, {".", "!", "?"})
                  IN  <<<<p, e>>>> \o SentenceMatches(doc, e)

\* _get_sentences
get_sentences(doc) ==
    LET sentences == SentenceMatches(doc, 0)
    IN  IF sentences = <<>> THEN <<<<0, Len(doc)>>>>
        ELSE IF sentences[Len(sentences)][2] < Len(doc)
             THEN Append(sentences, <<sentences[Len(sentences)][2], Len(doc)>>)
             ELSE sentences

\* re.finditer(r"\b\w+\b", text) from position p: the maximal runs of word
\* characters
RECURSIVE TokenMatches(_, _)
TokenMatches(doc, p) ==
    IF p >= Len(doc) THEN <<>>
    ELSE IF ~IsWordChar(CharAt(doc, p)) THEN TokenMatches(doc, p + 1)
    ELSE LET e == RunEnd(doc, p, {ch \in Range(doc) : IsWordChar(ch)})
         IN  <<<<p, e>>>> \o TokenMatches(doc, e)

\* _get_tokens
get_tokens(doc) == TokenMatches(doc, 0)

\* the first index whose span holds the position, or -1
FirstSpanWith(spans, position) ==
    LET at == {i \in 0..(Len(spans) - 1) :
                 spans[i + 1][1] <= position /\ position < spans[i + 1][2]}
    IN  IF at = {} THEN -1 ELSE CHOOSE i \in at : \A k \in at : i <= k

\* _find_sentence_index; -1 for None
find_sentence_index(sentences, position) ==
    IF FirstSpanWith(sentences, position) # -1 THEN FirstSpanWith(sentences, position)
    ELSE IF sentences # <<>> THEN Len(sentences) - 1
    ELSE -1

\* _find_token_index; -1 for None
find_token_index(tokens, position) ==
    IF FirstSpanWith(tokens, position) # -1 THEN FirstSpanWith(tokens, position)
    ELSE IF tokens # <<>> /\ position >= tokens[Len(tokens)][2] THEN Len(tokens) - 1
    ELSE -1

\* what a span policy gives: a span, None, or an IndexError
SpanOf(start, end) == [kind |-> "span", start |-> start, end |-> end]
NoSpan == [kind |-> "none", start |-> 0, end |-> 0]
SpanRaises == [kind |-> "raise", start |-> 0, end |-> 0]

\* max(spans, key=lambda s: s[1] - s[0]): the first span of the greatest length
LongestSpan(spans) ==
    spans[CHOOSE i \in 1..Len(spans) :
            /\ \A k \in 1..Len(spans) : spans[k][2] - spans[k][1] <= spans[i][2] - spans[i][1]
            /\ \A k \in 1..(i - 1) : spans[k][2] - spans[k][1] < spans[i][2] - spans[i][1]]

\* a Python list index: i counts from the end when negative
PyIndexOk(s, i) == -Len(s) <= i /\ i < Len(s)
PyIndex(s, i) == IF i >= 0 THEN s[i + 1] ELSE s[Len(s) + i + 1]

\* _anchor_window
anchor_window(doc, tokens, spans, span_policy) ==
    IF spans = <<>> THEN NoSpan
    ELSE LET anchor_span == LongestSpan(spans)
             anchor_index == find_token_index(tokens, anchor_span[1])
             left == Max(0, anchor_index + span_policy.window_tokens[1])
             right == Min(Len(tokens) - 1, anchor_index + span_policy.window_tokens[2])
         IN  IF anchor_index = -1
             THEN SpanOf(Max(0, anchor_span[1] - 50), Min(Len(doc), anchor_span[2] + 50))
             ELSE IF ~PyIndexOk(tokens, left) \/ ~PyIndexOk(tokens, right) THEN SpanRaises
             ELSE SpanOf(PyIndex(tokens, left)[1], PyIndex(tokens, right)[2])

\* the sentence indices of the child spans, by midpoint
SentenceIds(sentences, child_spans) ==
    {find_sentence_index(sentences, (child_spans[i][1] + child_spans[i][2]) \div 2) :
        i \in 1..Len(child_spans)} \ {-1}

\* LD35Model._apply_span_policy
ld35_apply_span_policy(doc, sentences, tokens, child_spans, span_policy) ==
    IF child_spans = <<>> THEN NoSpan
    ELSE IF span_policy.mode = "sentence_union"
    THEN LET ids == SentenceIds(sentences, child_spans)
             lo == CHOOSE i \in ids : \A k \in ids : i <= k
             hi == CHOOSE i \in ids : \A k \in ids : k <= i
         IN  IF sentences = <<>> \/ ids = {}
             THEN anchor_window(doc, tokens, child_spans, span_policy)
             ELSE IF hi - lo + 1 > span_policy.max_sentence_span
                  THEN IF span_policy.fallback = "anchor_window"
                       THEN anchor_window(doc, tokens, child_spans, span_policy)
                       ELSE NoSpan
                  ELSE SpanOf(sentences[lo + 1][1], sentences[hi + 1][2])
    ELSE anchor_window(doc, tokens, child_spans, span_policy)

\* marker_data.get("span_policy") or {}: a missing policy is the empty dict,
\* whose mode is "anchor_window" and whose window is [-8, 8]
LD35SpanPolicy(marker_data) ==
    IF marker_data.has_span_policy THEN marker_data.span_policy
    ELSE [mode |-> "anchor_window", max_sentence_span |-> 1,
          window_tokens |-> <<-8, 8>>, fallback |-> "none"]

----------------------------------------------------------------------------
(* LD35Model._evaluate_expression: Python's eval with no builtins, on the
   expression trees described above.  A name the context does not bind raises
   NameError (so does a call, whose function name is unbound); "and" and "or"
   stop at the first operand that decides; a comparison chain stops at the
   first comparison that fails; "in" on numbers raises TypeError. *)

RECURSIVE PyEval(_, _)
RECURSIVE PyEvalBoolOp(_, _, _, _)
RECURSIVE PyEvalCompare(_, _, _, _, _)

PyEvalBoolOp(op, values, k, context) ==
    LET v == PyEval(values[k], context)
    IN  IF ~v.ok THEN Raised
        ELSE IF k = Len(values) THEN v
        ELSE IF (op = "And" /\ v.v = 0) \/ (op = "Or" /\ v.v # 0) THEN v
        ELSE PyEvalBoolOp(op, values, k + 1, context)

PyEvalCompare(left, ops, comparators, k, context) ==
    IF k > Len(ops) THEN BoolValue(TRUE)
    ELSE LET right == PyEval(comparators[k], context)
         IN  IF ~right.ok \/ ~OpKnown(ops[k]) THEN Raised
             ELSE IF ~OpApply(ops[k], left, right.v) THEN BoolValue(FALSE)
             ELSE PyEvalCompare(right.v, ops, comparators, k + 1, context)

PyEval(node, context) ==
    CASE node.node = "BoolOp" -> PyEvalBoolOp(node.op, node.values, 1, context)
      [] node.node = "Compare" ->
            LET left == PyEval(node.left, context)
            IN  IF ~left.ok THEN Raised
                ELSE PyEvalCompare(left.v, node.ops, node.comparators, 1, context)
      [] node.node = "Not" ->
            LET operand == PyEval(node.operand, context)
            IN  IF ~operand.ok THEN Raised ELSE BoolValue(operand.v = 0)
      [] node.node = "Name" ->
            IF DictHas(context, node.id) THEN Value(DictGet(context, node.id, 0)) ELSE Raised
      [] node.node = "Constant" -> Value(node.value)
      [] node.node = "BinOp" ->
            LET left == PyEval(node.left, context)
                right == PyEval(node.right, context)
            IN  IF ~left.ok \/ ~right.ok THEN Raised
                ELSE Value(IF node.op = "Add" THEN left.v + right.v ELSE left.v - right.v)
      [] node.node = "Call" -> Raised

\* _evaluate_expression; has_expression is FALSE for None
evaluate_expression(has_expression, expression, context) ==
    IF ~has_expression \/ expression.node = "Empty" THEN TRUE
    ELSE IF expression.node = "SyntaxError" THEN FALSE
    ELSE PyEval(expression, context).ok /\ PyEval(expression, context).v # 0

----------------------------------------------------------------------------
(* LD35Model._detect_composed_markers *)

\* self.weights.get("composed", {})
ComposedCfg(weights_cfg) == DictGet(weights_cfg, "composed", <<>>)

\* int(composed_cfg.get("min_children", 1) or 1)
MinChildrenDefault(weights_cfg) ==
    LET v == DictGet(ComposedCfg(weights_cfg), "min_children", 1)
    IN  IF v = 0 THEN 1 ELSE v

\* float(composed_cfg.get("min_score", 0.6) or 0.6)
MinScoreDefault(weights_cfg) ==
    LET v == DictGet(ComposedCfg(weights_cfg), "min_score", 600)
    IN  IF v = 0 THEN 600 ELSE v

\* child_info: (child_id, float(weight or 1.0), matches) per child
ChildInfo(composed_of, matches) ==
    [i \in 1..Len(composed_of) |->
        [child_id |-> composed_of[i].marker_id,
         weight |-> IF composed_of[i].weight = 0 THEN 1 ELSE composed_of[i].weight,
         matches |-> DictGet(matches, composed_of[i].marker_id, <<>>)]]

\* child_counts = {child_id: len(matches) for ...}
RECURSIVE ChildCounts(_, _)
ChildCounts(counts, child_info) ==
    IF child_info = <<>> THEN counts
    ELSE ChildCounts(DictSet(counts, Head(child_info).child_id, Len(Head(child_info).matches)),
                     Tail(child_info))

\* sum(len(matches) * weight ...) / weight_sum, in thousandths
LD35Score(child_info) ==
    LET total == SumSeq([i \in 1..Len(child_info) |-> child_info[i].weight])
        weight_sum == IF total = 0 THEN 1 ELSE total
    IN  (1000 * SumSeq([i \in 1..Len(child_info) |->
                           Len(child_info[i].matches) * child_info[i].weight]))
            \div weight_sum

\* {**child_counts, "score": score, "total_children": total_children}
LD35Context(child_counts, score, total_children) ==
    DictSet(DictSet(CountsEnv(child_counts), "score", score),
            "total_children", total_children * 1000)

\* the part of the loop body before the promotion rule is looked at:
\* [kind |-> "hit", ...] when the marker gets through the checks on
\* min_children, min_score, activation and span; "skip" on a continue;
\* "raise" when the span policy raises
ComposedCandidate(doc, marker_id, marker_data, matches, weights_cfg) ==
    LET child_info == ChildInfo(marker_data.composed_of, matches)
        child_counts == ChildCounts(<<>>, child_info)
        total_children == DictSum(child_counts)
        score == LD35Score(child_info)
        min_score == IF marker_data.min_score # 0 THEN marker_data.min_score
                     ELSE MinScoreDefault(weights_cfg)
        child_spans == Flatten([i \in 1..Len(child_info) |-> child_info[i].matches])
        span == ld35_apply_span_policy(doc, get_sentences(doc), get_tokens(doc),
                                       child_spans, LD35SpanPolicy(marker_data))
        skip == [kind |-> "skip", span |-> NoSpan, score |-> 0, total_children |-> 0,
                 family |-> ""]
    IN  IF marker_data.kind # "composed" \/ marker_data.composed_of = <<>> THEN skip
        ELSE IF total_children < MinChildrenDefault(weights_cfg) THEN skip
        ELSE IF score < min_score THEN skip
        ELSE IF ~evaluate_expression(marker_data.has_activation, marker_data.activation,
                                     LD35Context(child_counts, score, total_children))
             THEN skip
        ELSE IF span.kind = "none" THEN skip
        ELSE IF span.kind = "raise" THEN [skip EXCEPT !.kind = "raise"]
        ELSE [kind |-> "hit", span |-> span, score |-> score,
              total_children |-> total_children,
              family |-> IF marker_data.family # "" THEN marker_data.family
                         ELSE get_marker_type_from_id(marker_id)]

\* the promotion part of the loop body, for a candidate of kind "hit": the list
\* of the one annotation appended, or the empty list on a continue
PromoteCandidate(marker_id, cand, rules) ==
    LET has_rule == DictHas(rules, marker_id)
        promo_rule == DictGet(rules, marker_id, <<>>)
        promo_context == << <<"score", cand.score>>,
                            <<"total_children", cand.total_children * 1000>> >>
        hit(final_family) ==
            << [marker_id |-> marker_id, family |-> final_family,
                start |-> cand.span.start, end |-> cand.span.end,
                score |-> cand.score] >>
    IN  IF ~has_rule THEN hit(cand.family)
        ELSE IF ~evaluate_expression(promo_rule.has_activate_when, promo_rule.activate_when,
                                     promo_context)
             THEN <<>>
        ELSE IF promo_rule.has_min_score /\ cand.score < promo_rule.min_score THEN <<>>
        ELSE hit(promo_rule.promote_to)

\* the body of "for marker_id, marker_data in self.markers_index.items()":
\* the annotations appended (none or one)
ComposedLoopBody(doc, marker_id, marker_data, matches, weights_cfg, rules) ==
    LET cand == ComposedCandidate(doc, marker_id, marker_data, matches, weights_cfg)
    IN  IF cand.kind = "hit" THEN PromoteCandidate(marker_id, cand, rules) ELSE <<>>

\* marker_matches.setdefault(marker_id, []).append(span)
AppendMatch(matches, marker_id, span) ==
    DictSet(matches, marker_id, Append(DictGet(matches, marker_id, <<>>), span))

\* _load_markers_canonical: the markers of the file, the first record of an
\* id kept and the records without an id left out
RECURSIVE FirstOfEachId(_, _)
FirstOfEachId(markers, seen) ==
    IF markers = <<>> THEN <<>>
    ELSE IF Head(markers).id = NoId \/ Head(markers).id \in seen
         THEN FirstOfEachId(Tail(markers), seen)
    ELSE <<Head(markers)>> \o FirstOfEachId(Tail(markers), seen \cup {Head(markers).id})

load_markers_canonical(file) == FirstOfEachId(LoadOrEmpty(file), {})

\* _build_marker_index: index[marker_id] = entry
RECURSIVE IndexInto(_, _)
IndexInto(index, markers) ==
    IF markers = <<>> THEN index
    ELSE IndexInto(DictSet(index, Head(markers).id, Head(markers)), Tail(markers))

build_marker_index(markers) == IndexInto(<<>>, markers)

\* _load_promotion_rules: rules[marker_id] = entry
RECURSIVE RulesInto(_, _)
RulesInto(rules, promotions) ==
    IF promotions = <<>> THEN rules
    ELSE RulesInto(DictSet(rules, Head(promotions).marker_id, Head(promotions)),
                   Tail(promotions))

load_promotion_rules(file) == RulesInto(<<>>, LoadOrEmpty(file))

----------------------------------------------------------------------------
(* Post-processing, ld35_engine.py *)

\* remove_duplicate_annotations: the first annotation of each
\* (start, end, marker) key is kept
RECURSIVE remove_duplicate_annotations(_)
remove_duplicate_annotations(a) ==
    IF a = <<>> THEN <<>>
    ELSE LET front == remove_duplicate_annotations(SubSeq(a, 1, Len(a) - 1))
             ann == a[Len(a)]
         IN  IF \E u \in Range(front) :
                    /\ u.start = ann.start
                    /\ u.end = ann.end
                    /\ u.marker_id = ann.marker_id
             THEN front
             ELSE Append(front, ann)

\* sorted(..., key=(score, end - start), reverse=True): descending and stable
PriorityKey(a) == -(a.score * KeyBase + SpanLen(a))

SortedByPriority(a) == StableSort(a, [i \in 1..Len(a) |-> PriorityKey(a[i])])

\* sorted(non_overlapping, key=start)
SortedByStart(a) == StableSort(a, [i \in 1..Len(a) |-> a[i].start])

RECURSIVE GreedySelect(_, _)
GreedySelect(non_overlapping, rest) ==
    IF rest = <<>> THEN non_overlapping
    ELSE LET ann == Head(rest)
             is_overlapping ==
                 \E existing \in Range(non_overlapping) :
                     Max(ann.start, existing.start) < Min(ann.end, existing.end)
         IN  GreedySelect(IF is_overlapping THEN non_overlapping
                          ELSE Append(non_overlapping, ann), Tail(rest))

resolve_overlapping_annotations(a) ==
    SortedByStart(GreedySelect(<<>>, SortedByPriority(a)))

post_process_annotations(a) ==
    resolve_overlapping_annotations(remove_duplicate_annotations(a))

----------------------------------------------------------------------------
(* The resolver as a state machine *)

MaxPos == 2
MaxHits == 3

\* the (marker, family, score) combinations of the hits fed to the resolver
HitKinds ==
    { [marker_id |-> "SEM_A", family |-> "SEM", score |-> 700],
      [marker_id |-> "ATO_A", family |-> "ATO", score |-> 900],
      [marker_id |-> "ATO_B", family |-> "ATO", score |-> 900],
      [marker_id |-> "ATO_A", family |-> "ATO", score |-> 700],
      [marker_id |-> "ENT_X", family |-> "ENT", score |-> 900] }

Hits ==
    { [start |-> s, end |-> e, marker_id |-> k.marker_id,
       family |-> k.family, score |-> k.score] :
        s \in 0..MaxPos, e \in 0..MaxPos, k \in HitKinds }

ValidHits == {h \in Hits : h.start < h.end}

\* the two calls of analyze_text
Calls == {1, 2}

\* no file in resources_dir
NoFile == [state |-> "absent", content |-> <<>>]

\* no expression is being evaluated
EvalIdle ==
    /\ ev_pc = "off"
    /\ ev_expr = [node |-> "Empty"]
    /\ ev_env = <<>>
    /\ ev_sem = "none"
    /\ ev_ld = "none"

\* chunk_text is not running
ChunkIdle ==
    /\ ch_pc = "off"
    /\ ch_text = <<>>
    /\ chunk_size = 1
    /\ overlap = 0
    /\ ch_start = 0
    /\ chunks = <<>>

\* no DocumentStorage is in use
StorageIdle ==
    /\ st_pc = "off"
    /\ originals = <<>>
    /\ annotation_files = <<>>
    /\ saved_text = <<>>
    /\ saved_anns = <<>>
    /\ loaded = <<>>

\* sentence_boundaries is not running on its own
SplitIdle ==
    /\ sb_pc = "off"
    /\ sb_text = <<>>
    /\ sb_out = <<>>

UtilIdle == EvalIdle /\ ChunkIdle /\ StorageIdle /\ SplitIdle

\* no resolver run is under way
ResolveIdle ==
    /\ anns = <<>>
    /\ kept = <<>>
    /\ cur_idx = 0
    /\ rpc = "off"
    /\ final_anns = <<>>
    /\ resolved_anns = <<>>

\* no call of analyze_text is under way
AnalyzeIdle ==
    /\ input_text = <<>>
    /\ resources = [canon_file |-> NoFile, promotion_file |-> NoFile,
                    weights_file |-> NoFile]
    /\ pc = [t \in Calls |-> "off"]
    /\ canon = [t \in Calls |-> <<>>]
    /\ promotion = [t \in Calls |-> <<>>]
    /\ weights = [t \in Calls |-> <<>>]
    /\ rx_index = [t \in Calls |-> <<>>]
    /\ atomic_annotations = [t \in Calls |-> <<>>]
    /\ composed_annotations = [t \in Calls |-> <<>>]
    /\ result = [t \in Calls |-> <<>>]

\* no call of run_inference is under way
LD35Idle ==
    /\ ld_text = <<>>
    /\ markers_index = <<>>
    /\ ld_weights = <<>>
    /\ promotion_rules = <<>>
    /\ ld_pc = "off"
    /\ ld_atomic = <<>>
    /\ marker_matches = <<>>
    /\ ld_composed = <<>>
    /\ marker_pos = 0
    /\ inference = <<>>

ResolveInit ==
    /\ anns \in SeqsUpTo(ValidHits, MaxHits)
    /\ kept = <<>>
    /\ cur_idx = 0
    /\ rpc = "idle"
    /\ final_anns = <<>>
    /\ resolved_anns = <<>>
    /\ AnalyzeIdle
    /\ LD35Idle
    /\ UtilIdle

\* resolve_overlaps, entry: anns = sorted(anns, ...); kept = []
ResolveStart ==
    /\ rpc = "idle"
    /\ anns' = SortedForResolve(anns)
    /\ kept' = <<>>
    /\ cur_idx' = 1
    /\ rpc' = "loop"
    /\ UNCHANGED <<final_anns, resolved_anns, analyzeVars, ld35Vars, utilVars>>

\* resolve_overlaps: one pass of the body of "for current in anns"
ResolveStep ==
    /\ rpc = "loop"
    /\ cur_idx <= Len(anns)
    /\ kept' = ResolveIter(kept, anns[cur_idx])
    /\ cur_idx' = cur_idx + 1
    /\ UNCHANGED <<anns, rpc, final_anns, resolved_anns, analyzeVars, ld35Vars, utilVars>>

\* resolve_overlaps: return kept
ResolveReturn ==
    /\ rpc = "loop"
    /\ cur_idx > Len(anns)
    /\ final_anns' = kept
    /\ rpc' = "done"
    /\ UNCHANGED <<anns, kept, cur_idx, resolved_anns, analyzeVars, ld35Vars, utilVars>>

\* the LD35 path: post_process_annotations on the list handed in
PostProcess ==
    /\ rpc = "idle"
    /\ resolved_anns' = post_process_annotations(anns)
    /\ rpc' = "post"
    /\ UNCHANGED <<anns, kept, cur_idx, final_anns, analyzeVars, ld35Vars, utilVars>>

ResolveNext == ResolveStart \/ ResolveStep \/ ResolveReturn \/ PostProcess

SpecResolve == ResolveInit /\ [][ResolveNext]_vars

----------------------------------------------------------------------------
(* analyze_text as a state machine: two calls on the same text and the same
   resources_dir, each with its own frame of locals, their steps interleaved *)

MaxTextLen == 4

\* the characters of the texts
Chars == {"a", ",", ".", " "}

\* a text that begins with a paragraph break and has five sentences after it:
\* "\n\na. . ,aaa. . ."
LongTexts ==
    { <<"\n", "\n", "a", ".", " ", ".", " ", ",", "a", "a", "a", ".", " ", ".", " ", ".">> }

Texts == SeqsUpTo(Chars, MaxTextLen) \cup LongTexts

Pat(lit, wb) == [lit |-> lit, wb |-> wb, valid |-> TRUE]
InvalidPat == [lit |-> <<>>, wb |-> FALSE, valid |-> FALSE]
NoExpr == [node |-> "Empty"]

AtomicMarker(id, detects, demote_if) ==
    [id |-> id, kind |-> "atomic", detects |-> detects, demote_if |-> demote_if,
     composed_of |-> <<>>, has_activation |-> FALSE, activation |-> NoExpr,
     has_span_policy |-> FALSE, span_policy |-> DefaultSpanPolicy,
     min_score |-> 0, family |-> "", has_scoring |-> FALSE, scoring_weight |-> 0]

ComposedMarker(id, composed_of, has_activation, activation, has_span_policy, span_policy) ==
    [id |-> id, kind |-> "composed", detects |-> <<>>, demote_if |-> <<>>,
     composed_of |-> composed_of,
     has_activation |-> has_activation, activation |-> activation,
     has_span_policy |-> has_span_policy, span_policy |-> span_policy,
     min_score |-> 0, family |-> "", has_scoring |-> FALSE, scoring_weight |-> 0]

\* name op constant, e.g. "ATO_A >= 1"
Cmp(name, op, value) ==
    [node |-> "Compare", left |-> [node |-> "Name", id |-> name],
     ops |-> <<op>>, comparators |-> <<[node |-> "Constant", value |-> value]>>]

\* "ATO_A >= 1 and ATO_B >= 1"
BothChildren ==
    [node |-> "BoolOp", op |-> "And",
     values |-> <<Cmp("ATO_A", "GtE", 1000), Cmp("ATO_B", "GtE", 1000)>>]

\* "score >= 0.5"
ScoreAtLeastHalf == Cmp("score", "GtE", 500)

\* the atomic markers: ATO_A detects "a", ATO_B detects ","
PlainAtomics ==
    << AtomicMarker("ATO_A", <<Pat(<<"a">>, FALSE)>>, <<>>),
       AtomicMarker("ATO_B", <<Pat(<<",">>, FALSE)>>, <<>>) >>

\* ATO_A with a pattern that matches the empty string, one that does not
\* compile and the word "a"; ATO_B demoted next to "a,"
RichAtomics ==
    << AtomicMarker("ATO_A", <<Pat(<<>>, FALSE), InvalidPat, Pat(<<"a">>, TRUE)>>, <<>>),
       AtomicMarker("ATO_B", <<Pat(<<",">>, FALSE)>>, <<Pat(<<"a", ",">>, FALSE)>>) >>

\* ENT_X detects "," and "a"; a hit equal to the word "a" is demoted
OddAtomics ==
    << AtomicMarker("ENT_X", <<Pat(<<",">>, FALSE), Pat(<<"a">>, FALSE)>>,
                    <<Pat(<<"a">>, TRUE)>>) >>

\* ATO_A with two detect patterns that match the same spans: "a" and the
\* word "a"
TwinAtomics ==
    << AtomicMarker("ATO_A", <<Pat(<<"a">>, FALSE), Pat(<<"a">>, TRUE)>>, <<>>),
       AtomicMarker("ATO_B", <<Pat(<<",">>, FALSE)>>, <<>>) >>

\* ATO_A detects " " and ATO_B detects ". ": hits that lie on the boundary of
\* two sentences
BoundaryAtomics ==
    << AtomicMarker("ATO_A", <<Pat(<<" ">>, FALSE)>>, <<>>),
       AtomicMarker("ATO_B", <<Pat(<<".", " ">>, FALSE)>>, <<>>) >>

\* two records with the id ATO_A: the first detects "a", the second ","
RepeatedAtomics ==
    << AtomicMarker("ATO_A", <<Pat(<<"a">>, FALSE)>>, <<>>),
       AtomicMarker("ATO_A", <<Pat(<<",">>, FALSE)>>, <<>>) >>

\* ATO_A and a record without an id
NamelessAtomics ==
    << AtomicMarker("ATO_A", <<Pat(<<"a">>, FALSE)>>, <<>>),
       AtomicMarker(NoId, <<Pat(<<",">>, FALSE)>>, <<>>) >>

Policy(mode, max_sentence_span, window_tokens) ==
    [mode |-> mode, max_sentence_span |-> max_sentence_span,
     window_tokens |-> window_tokens, fallback |-> "none"]

\* the span policies a composed marker declares
Policies ==
    { Policy("sentence_union", 1, <<-8, 8>>),
      Policy("sentence_union", 2, <<-8, 8>>),
      Policy("sentence_union", 4, <<-8, 8>>),
      Policy("clause_union", 1, <<-8, 8>>),
      Policy("anchor_window", 1, <<-8, 8>>),
      Policy("anchor_window", 1, <<1, 1>>) }

Children(w1, w2) ==
    << [marker_id |-> "ATO_A", weight |-> w1], [marker_id |-> "ATO_B", weight |-> w2] >>

\* the contents of markers_canonical.ld35.json
CanonContents ==
    { PlainAtomics, RichAtomics, OddAtomics, RepeatedAtomics, NamelessAtomics }
    \cup { PlainAtomics \o <<ComposedMarker("SEM_AB", Children(1, 3), FALSE, NoExpr, FALSE,
                                             DefaultSpanPolicy)>>,
           RichAtomics \o <<ComposedMarker("SEM_AB", Children(1, 3), FALSE, NoExpr, FALSE,
                                            DefaultSpanPolicy)>>,
           PlainAtomics \o <<ComposedMarker("SEM_AB", Children(0, 0), FALSE, NoExpr, FALSE,
                                             DefaultSpanPolicy)>>,
           TwinAtomics \o <<ComposedMarker("SEM_AB", Children(1, 3), FALSE, NoExpr, FALSE,
                                            DefaultSpanPolicy)>>,
           BoundaryAtomics \o <<ComposedMarker("SEM_AB", Children(1, 3), FALSE, NoExpr, FALSE,
                                                DefaultSpanPolicy)>>,
           PlainAtomics \o <<ComposedMarker("SEM_AB", Children(1, 3), TRUE, ScoreAtLeastHalf,
                                             FALSE, DefaultSpanPolicy)>>,
           PlainAtomics \o <<ComposedMarker("CLU_AB", Children(1, 1), TRUE,
                                             [node |-> "Call"], FALSE, DefaultSpanPolicy)>> }
    \cup { PlainAtomics \o <<ComposedMarker("SEM_AB", Children(1, 3), TRUE, act, TRUE, pol)>> :
               act \in {NoExpr, BothChildren}, pol \in Policies }

File(content) == [state |-> "object", content |-> content]
Unparseable == [state |-> "unparseable", content |-> <<>>]

\* promotion_mapping.ld35.json: SEM_AB is promoted to CLU when score > 0.5
PromotionRules ==
    << [marker_id |-> "SEM_AB",
        has_activate_when |-> TRUE, activate_when |-> Cmp("score", "Gt", 500),
        has_min_score |-> TRUE, min_score |-> 600, promote_to |-> "CLU"] >>

\* weights.ld35.json: {"composed": {"min_children": 1, "min_score": 0.6}}
WeightsContent == << <<"composed", << <<"min_children", 1>>, <<"min_score", 600>> >> >> >>

\* the states of resources_dir
Bundles ==
    { [canon_file |-> File(c), promotion_file |-> File(PromotionRules),
       weights_file |-> File(WeightsContent)] : c \in CanonContents }
    \cup { [canon_file |-> c, promotion_file |-> f, weights_file |-> f] :
               c \in {NoFile, Unparseable,
                      File(PlainAtomics \o <<ComposedMarker("SEM_AB", Children(1, 3), FALSE,
                                                            NoExpr, FALSE, DefaultSpanPolicy)>>)},
               f \in {NoFile, Unparseable} }

AnalyzeInit ==
    /\ input_text \in Texts
    /\ resources \in Bundles
    /\ pc = [t \in Calls |-> "start"]
    /\ canon = [t \in Calls |-> <<>>]
    /\ promotion = [t \in Calls |-> <<>>]
    /\ weights = [t \in Calls |-> <<>>]
    /\ rx_index = [t \in Calls |-> <<>>]
    /\ atomic_annotations = [t \in Calls |-> <<>>]
    /\ composed_annotations = [t \in Calls |-> <<>>]
    /\ result = [t \in Calls |-> <<>>]
    /\ ResolveIdle
    /\ LD35Idle
    /\ UtilIdle

\* Canon.from_files and the two guarded load_json calls.  A canonical file
\* that exists and does not parse makes the call raise, and so does one with
\* a record that has no id.
LoadResources(t) ==
    /\ pc[t] = "start"
    /\ IF \/ resources.canon_file.state = "unparseable"
          \/ CanonRaises(LoadOrEmpty(resources.canon_file))
       THEN /\ pc' = [pc EXCEPT ![t] = "raised"]
            /\ UNCHANGED <<canon, promotion, weights>>
       ELSE /\ canon' = [canon EXCEPT ![t] = LoadOrEmpty(resources.canon_file)]
            /\ promotion' = [promotion EXCEPT ![t] = LoadOrEmpty(resources.promotion_file)]
            /\ weights' = [weights EXCEPT ![t] = LoadOrEmpty(resources.weights_file)]
            /\ pc' = [pc EXCEPT ![t] = "loaded"]
    /\ UNCHANGED <<input_text, resources, rx_index, atomic_annotations, composed_annotations,
                   result, resolveVars, ld35Vars, utilVars>>

\* rx_index = compile_atomic_regex(canon)
CompileRegex(t) ==
    /\ pc[t] = "loaded"
    /\ rx_index' = [rx_index EXCEPT ![t] = compile_atomic_regex(canon[t])]
    /\ pc' = [pc EXCEPT ![t] = "compiled"]
    /\ UNCHANGED <<input_text, resources, canon, promotion, weights, atomic_annotations,
                   composed_annotations, result, resolveVars, ld35Vars, utilVars>>

\* atomic_annotations = detect_atomics(text, rx_index)
DetectAtomics(t) ==
    /\ pc[t] = "compiled"
    /\ atomic_annotations' =
           [atomic_annotations EXCEPT ![t] = detect_atomics(input_text, rx_index[t])]
    /\ pc' = [pc EXCEPT ![t] = "detected"]
    /\ UNCHANGED <<input_text, resources, canon, promotion, weights, rx_index,
                   composed_annotations, result, resolveVars, ld35Vars, utilVars>>

\* a variant in which atomic_annotations is one list shared by the calls
SharedAtomics(t) == atomic_annotations[1]

\* the atomic_annotations a later statement of call t reads: its own local
LocalAtomics(t) == atomic_annotations[t]

\* composed_annotations = compose(text, canon, atomic_annotations, promotion, weights)
Compose(t) ==
    /\ pc[t] = "detected"
    /\ composed_annotations' =
           [composed_annotations EXCEPT
               ![t] = compose(input_text, canon[t], LocalAtomics(t), promotion[t], weights[t])]
    /\ pc' = [pc EXCEPT ![t] = "composed"]
    /\ UNCHANGED <<input_text, resources, canon, promotion, weights, rx_index,
                   atomic_annotations, result, resolveVars, ld35Vars, utilVars>>

\* the dict analyze_text returns
ResultDict(txt, atomics, composeds) ==
    LET final_annotations == resolve_overlaps(atomics \o composeds)
    IN  [text |-> txt,
         annotations |-> final_annotations,
         metadata |-> [atomic_count |-> Len(atomics),
                       composed_count |-> Len(composeds),
                       final_count |-> Len(final_annotations)]]

\* final_annotations = resolve_overlaps(all_annotations, weights); return {...}
ResolveAndReturn(t) ==
    /\ pc[t] = "composed"
    /\ result' = [result EXCEPT
                     ![t] = <<ResultDict(input_text, LocalAtomics(t), composed_annotations[t])>>]
    /\ pc' = [pc EXCEPT ![t] = "returned"]
    /\ UNCHANGED <<input_text, resources, canon, promotion, weights, rx_index,
                   atomic_annotations, composed_annotations, resolveVars, ld35Vars, utilVars>>

AnalyzeNext ==
    \E t \in Calls :
        \/ LoadResources(t)
        \/ CompileRegex(t)
        \/ DetectAtomics(t)
        \/ Compose(t)
        \/ ResolveAndReturn(t)

SpecAnalyze == AnalyzeInit /\ [][AnalyzeNext]_vars

\* analyze_text as a function of its inputs: the value one call returns when
\* it runs alone, <<>> when it raises
analyze_text(txt, res) ==
    IF res.canon_file.state = "unparseable" \/ CanonRaises(LoadOrEmpty(res.canon_file))
    THEN <<>>
    ELSE LET markers == LoadOrEmpty(res.canon_file)
             atomics == detect_atomics(txt, compile_atomic_regex(markers))
             composeds == compose(txt, markers, atomics,
                                  LoadOrEmpty(res.promotion_file),
                                  LoadOrEmpty(res.weights_file))
         IN  <<ResultDict(txt, atomics, composeds)>>

----------------------------------------------------------------------------
(* LD35Model.run_inference as a state machine: the model is constructed over
   a resources directory, then one call runs the pattern fallback *)

MaxDocLen == 3

\* the texts handed to run_inference
Docs == SeqsUpTo(Chars, MaxDocLen)

\* "total_children >= 2"
TwoChildren == Cmp("total_children", "GtE", 2000)

\* SEM_AB over ATO_A (weight 1) and ATO_B (weight 3)
SemAB == ComposedMarker("SEM_AB", Children(1, 3), FALSE, NoExpr, FALSE, DefaultSpanPolicy)

\* SEM_A over ATO_A alone
SemA ==
    ComposedMarker("SEM_A", <<[marker_id |-> "ATO_A", weight |-> 1]>>, FALSE, NoExpr,
                   FALSE, DefaultSpanPolicy)

\* CLU_AB over the composed SEM_AB and ATO_A
CluAB ==
    ComposedMarker("CLU_AB", <<[marker_id |-> "SEM_AB", weight |-> 1],
                               [marker_id |-> "ATO_A", weight |-> 1]>>,
                   FALSE, NoExpr, TRUE, Policy("sentence_union", 2, <<-8, 8>>))

\* the contents of the canonical file LD35Model is constructed over
LD35CanonContents ==
    { PlainAtomics \o <<SemAB>>,
      PlainAtomics \o <<SemA>>,
      PlainAtomics \o <<[SemAB EXCEPT !.min_score = 200]>>,
      PlainAtomics \o <<[SemA EXCEPT !.has_activation = TRUE, !.activation = TwoChildren]>>,
      PlainAtomics \o <<[SemAB EXCEPT !.has_span_policy = TRUE,
                                      !.span_policy = Policy("sentence_union", 1, <<-8, 8>>)]>>,
      PlainAtomics \o <<[SemA EXCEPT !.has_span_policy = TRUE,
                                     !.span_policy = Policy("anchor_window", 1, <<1, 1>>)]>>,
      PlainAtomics \o <<[SemAB EXCEPT !.family = "MEMA"]>>,
      PlainAtomics \o <<SemAB, CluAB>>,
      << [PlainAtomics[1] EXCEPT !.has_scoring = TRUE, !.scoring_weight = 1500],
         [PlainAtomics[2] EXCEPT !.has_scoring = TRUE, !.scoring_weight = 100],
         [SemAB EXCEPT !.id = "DEESC_AB"] >>,
      RichAtomics \o <<SemAB, SemAB>>,
      TwinAtomics \o <<SemAB>> }

Rule(marker_id, has_activate_when, activate_when, has_min_score, min_score) ==
    [marker_id |-> marker_id,
     has_activate_when |-> has_activate_when, activate_when |-> activate_when,
     has_min_score |-> has_min_score, min_score |-> min_score, promote_to |-> "CLU"]

\* a weights file: {"composed": {"min_children": 2, "min_score": 0.2}}
LowWeightsContent == << <<"composed", << <<"min_children", 2>>, <<"min_score", 200>> >> >> >>

\* the states of the promotion mapping file
LD35PromotionFiles ==
    { NoFile, File(PromotionRules),
      File(<<Rule("SEM_AB", TRUE, TwoChildren, FALSE, 0),
             Rule("SEM_A", TRUE, TwoChildren, FALSE, 0)>>),
      File(<<Rule("SEM_AB", FALSE, NoExpr, TRUE, 900),
             Rule("SEM_A", TRUE, NoExpr, TRUE, 900)>>) }

\* LD35Model.__init__ over the files, and the text of the call
LD35Init ==
    /\ ld_text \in Docs
    /\ \E c \in LD35CanonContents \cup {<<>>} :
           markers_index = build_marker_index(load_markers_canonical(File(c)))
    /\ \E f \in {NoFile, File(LowWeightsContent)} : ld_weights = LoadOrEmpty(f)
    /\ \E f \in LD35PromotionFiles : promotion_rules = load_promotion_rules(f)
    /\ ld_pc = "start"
    /\ ld_atomic = <<>>
    /\ marker_matches = <<>>
    /\ ld_composed = <<>>
    /\ marker_pos = 0
    /\ inference = <<>>
    /\ ResolveIdle
    /\ AnalyzeIdle
    /\ UtilIdle

\* atomic_annotations, marker_matches = self._pattern_based_detection(text)
PatternBasedDetection ==
    /\ ld_pc = "start"
    /\ ld_atomic' = pattern_based_detection(ld_text, markers_index)[1]
    /\ marker_matches' = pattern_based_detection(ld_text, markers_index)[2]
    /\ marker_pos' = 1
    /\ ld_pc' = "composing"
    /\ UNCHANGED <<ld_text, markers_index, ld_weights, promotion_rules, ld_composed,
                   inference, resolveVars, analyzeVars, utilVars>>

\* _detect_composed_markers: one pass of the loop over self.markers_index
DetectComposedStep ==
    /\ ld_pc = "composing"
    /\ marker_pos <= Len(markers_index)
    /\ LET marker_id == markers_index[marker_pos][1]
           marker_data == markers_index[marker_pos][2]
           cand == ComposedCandidate(ld_text, marker_id, marker_data, marker_matches,
                                     ld_weights)
           emitted == ComposedLoopBody(ld_text, marker_id, marker_data, marker_matches,
                                       ld_weights, promotion_rules)
       IN  IF cand.kind = "raise"
           THEN /\ ld_pc' = "raised"
                /\ UNCHANGED <<ld_composed, marker_matches, marker_pos>>
           ELSE /\ ld_composed' = ld_composed \o emitted
                /\ marker_matches' =
                       IF emitted = <<>> THEN marker_matches
                       ELSE AppendMatch(marker_matches, marker_id,
                                        <<emitted[1].start, emitted[1].end>>)
                /\ marker_pos' = marker_pos + 1
                /\ ld_pc' = ld_pc
    /\ UNCHANGED <<ld_text, markers_index, ld_weights, promotion_rules, ld_atomic,
                   inference, resolveVars, analyzeVars, utilVars>>

\* return atomic_annotations + composed_annotations
ReturnInference ==
    /\ ld_pc = "composing"
    /\ marker_pos > Len(markers_index)
    /\ inference' = ld_atomic \o ld_composed
    /\ ld_pc' = "returned"
    /\ UNCHANGED <<ld_text, markers_index, ld_weights, promotion_rules, ld_atomic,
                   marker_matches, ld_composed, marker_pos, resolveVars, analyzeVars, utilVars>>

LD35Next == PatternBasedDetection \/ DetectComposedStep \/ ReturnInference

SpecLD35 == LD35Init /\ [][LD35Next]_vars

----------------------------------------------------------------------------
(* Properties of the overlap resolver *)

Disjoint(a, b) == a.end <= b.start \/ b.end <= a.start

PairwiseDisjoint(out) ==
    \A i \in 1..Len(out) : \A j \in 1..Len(out) : i # j => Disjoint(out[i], out[j])

NonDecreasingStart(out) ==
    \A i \in 1..Len(out) : \A j \in 1..Len(out) : i < j => out[i].start <= out[j].start

\* C1: the list returned by resolve_overlaps, and the list returned by
\* post_process_annotations, is pairwise non-overlapping for every list of
\* hits with start < end in any order.
C1_NonOverlap ==
    /\ rpc = "done" => PairwiseDisjoint(final_anns)
    /\ rpc = "post" => PairwiseDisjoint(resolved_anns)

\* three hits, two of them overlapping, went through resolve_overlaps and two survived
C1_Witness ==
    /\ rpc = "done"
    /\ Len(anns) = 3
    /\ Len(final_anns) = 2
    /\ \E i \in 1..3 : \E j \in 1..3 : i # j /\ ~Disjoint(anns[i], anns[j])

PriorityTuple(a) == <<FAMILY_ORDER(a.family), a.score, SpanLen(a)>>

Outranks(a, b) ==
    \/ FAMILY_ORDER(a.family) < FAMILY_ORDER(b.family)
    \/ FAMILY_ORDER(a.family) = FAMILY_ORDER(b.family) /\ a.score > b.score
    \/ /\ FAMILY_ORDER(a.family) = FAMILY_ORDER(b.family)
       /\ a.score = b.score
       /\ SpanLen(a) > SpanLen(b)

\* C6: when the next candidate overlaps a kept hit and their priority tuples
\* differ, the loop step leaves the one that outranks the other in the kept
\* hit's place; a SEM hit always survives against an ATO hit.
C6_PriorityDecides ==
    (rpc = "loop" /\ cur_idx <= Len(anns)) =>
        LET current == anns[cur_idx]
            after == ResolveIter(kept, current)
        IN  \A j \in 1..Len(kept) :
                (~Disjoint(current, kept[j]) /\ PriorityTuple(current) # PriorityTuple(kept[j]))
                => /\ Len(after) = Len(kept)
                   /\ after[j] = IF Outranks(current, kept[j]) THEN current ELSE kept[j]
                   /\ (current.family = "SEM" /\ kept[j].family = "ATO") => after[j] = current
                   /\ (current.family = "ATO" /\ kept[j].family = "SEM") => after[j] = kept[j]

\* a SEM candidate with the lower score has just replaced the ATO hit it overlaps
C6_Witness ==
    /\ rpc = "loop"
    /\ cur_idx = 3
    /\ anns[1].family = "ATO"
    /\ anns[2].family = "SEM"
    /\ ~Disjoint(anns[1], anns[2])
    /\ anns[1].score > anns[2].score
    /\ kept = <<anns[2]>>

\* the marker ids of the model in lexicographic order
MarkerIdOrder == <<"ATO_A", "ATO_B", "ENT_X", "SEM_A">>

IdRank(marker_id) == CHOOSE i \in 1..Len(MarkerIdOrder) : MarkerIdOrder[i] = marker_id

Reorderings(s) ==
    { [i \in 1..Len(s) |-> s[f[i]]] :
        f \in {g \in [1..Len(s) -> 1..Len(s)] : \A i, j \in 1..Len(s) : g[i] = g[j] => i = j} }

\* C7: every permutation of the input gives the same result, and a candidate
\* tied with the kept hit it overlaps on (family rank, score, length) competes
\* by marker id: the lexicographically smaller one is kept.
C7_OrderIndependent ==
    /\ rpc = "done" => \A p \in Reorderings(anns) : resolve_overlaps(p) = final_anns
    /\ (rpc = "loop" /\ cur_idx <= Len(anns)) =>
           LET current == anns[cur_idx]
               after == ResolveIter(kept, current)
           IN  \A j \in 1..Len(kept) :
                   (/\ ~Disjoint(current, kept[j])
                    /\ PriorityTuple(current) = PriorityTuple(kept[j])
                    /\ IdRank(current.marker_id) < IdRank(kept[j].marker_id))
                   => after[j] = current

----------------------------------------------------------------------------
(* Properties of analyze_text *)

\* the annotations the calls have returned, each with the text of its call
Returned ==
    UNION { {<<r.text, r.annotations[i]>> : i \in 1..Len(r.annotations)} :
              r \in UNION {Range(result[t]) : t \in Calls} }

\* C3: every annotation analyze_text returns satisfies
\* 0 <= start < end <= len(text), whatever the text and the bundle, for atomic
\* hits and for composed hits under every span policy mode.
C3_Bounds ==
    \A ra \in Returned :
        /\ 0 <= ra[2].start
        /\ ra[2].start < ra[2].end
        /\ ra[2].end <= Len(ra[1])

\* C5: analyze_text is a function of (text, bundle): under every interleaving
\* of the steps of the two calls, a call that returns has returned the value
\* the inputs determine, a call raises only when the inputs make it raise,
\* and two calls that returned have equal results.
C5_Pure ==
    /\ \A t \in Calls :
           /\ pc[t] = "returned" => result[t] = analyze_text(input_text, resources)
           /\ pc[t] = "raised" => analyze_text(input_text, resources) = <<>>
           /\ pc[t] \notin {"returned", "off"} => result[t] = <<>>
    /\ (pc[1] = "returned" /\ pc[2] = "returned") => result[1] = result[2]

\* both calls have returned a result with an atomic and a composed hit in it
C5_Witness ==
    /\ pc[1] = "returned" /\ pc[2] = "returned"
    /\ result[1] # <<>> /\ result[2] # <<>>
    /\ result[1][1].metadata.atomic_count > 0
    /\ result[1][1].metadata.composed_count > 0
    /\ result[1][1].annotations # <<>>

\* the promotion rules of the bundle for a marker id
RulesFor(marker_id) ==
    {rule \in Range(LoadOrEmpty(resources.promotion_file)) : rule.marker_id = marker_id}

\* the rule's guard passes on the hit's score and min_score is reached
RuleFires(rule, a) ==
    /\ rule.has_activate_when =>
           eval_activation(rule.activate_when, << <<"score", a.score>> >>)
    /\ rule.has_min_score => a.score >= rule.min_score

\* C8: a returned annotation whose marker has a promotion rule that fires
\* (guard passes and score >= rule.min_score) carries the family
\* rule.promote_to; every other annotation carries the prefix of its
\* marker_id before the first "_".
C8_FamilyConsistency ==
    \A ra \in Returned :
        LET a == ra[2]
            fired == {rule \in RulesFor(a.marker_id) : RuleFires(rule, a)}
        IN  IF fired # {}
            THEN \E rule \in fired : a.family = rule.promote_to
            ELSE a.family = IdPrefix(a.marker_id)

----------------------------------------------------------------------------
(* Properties of LD35Model composition *)

\* the promotion rule of the marker fires on the candidate: a rule exists, its
\* guard evaluates to true and the score reaches the rule's min_score
PromotionFires(marker_id, cand) ==
    /\ DictHas(promotion_rules, marker_id)
    /\ LET rule == DictGet(promotion_rules, marker_id, <<>>)
       IN  /\ evaluate_expression(rule.has_activate_when, rule.activate_when,
                                  << <<"score", cand.score>>,
                                     <<"total_children", cand.total_children * 1000>> >>)
           /\ rule.has_min_score => cand.score >= rule.min_score

\* C9: promotion never removes a hit.  When the loop of
\* _detect_composed_markers stands before a marker that gets through the
\* checks on children, score, activation and span, the pass emits an
\* annotation for it with that span; when the marker's promotion rule does not
\* fire (guard false, or score below the rule's min_score), the annotation
\* carries the family the hit had before.
C9_PromotionKeepsHit ==
    (ld_pc = "composing" /\ marker_pos <= Len(markers_index)) =>
        LET marker_id == markers_index[marker_pos][1]
            marker_data == markers_index[marker_pos][2]
            cand == ComposedCandidate(ld_text, marker_id, marker_data, marker_matches,
                                      ld_weights)
            emitted == ComposedLoopBody(ld_text, marker_id, marker_data, marker_matches,
                                        ld_weights, promotion_rules)
        IN  cand.kind = "hit" =>
                \E i \in 1..Len(emitted) :
                    /\ emitted[i].marker_id = marker_id
                    /\ emitted[i].start = cand.span.start
                    /\ emitted[i].end = cand.span.end
                    /\ ~PromotionFires(marker_id, cand) => emitted[i].family = cand.family

\* C10: every annotation of atomic detection and of composition has a score
\* between 0 and 1 (0 and 1000 thousandths), for child weights >= 0 and any
\* number of child matches.
C10_ScoreRange ==
    \A a \in Range(ld_atomic) \cup Range(ld_composed) :
        0 <= a.score /\ a.score <= 1000

----------------------------------------------------------------------------
(* Demotion, sem_core.py *)

\* the demote patterns compiled for a marker
DemotePatternsOf(rx, marker_id) == DictGet(rx, marker_id, <<<<>>, <<>>>>)[2]

\* the atomic hits of the calls that have run detect_atomics
DetectedAtomics ==
    UNION { {<<t, a>> : a \in Range(atomic_annotations[t])} :
               t \in {c \in Calls : pc[c] \in {"detected", "composed", "returned"}} }

\* C11: for every atomic hit that detect_atomics returns for a marker, no
\* demote pattern of the marker fullmatches text[start:end], and no match of a
\* demote pattern of the marker found in the text overlaps [start, end)
C11_DemoteFiltered ==
    \A ta \in DetectedAtomics :
        \A d \in Range(DemotePatternsOf(rx_index[ta[1]], ta[2].marker_id)) :
            /\ ~FullMatch(d, Slice(input_text, ta[2].start, ta[2].end))
            /\ \A match \in Range(FindIter(d, input_text)) :
                   match[2] <= ta[2].start \/ match[1] >= ta[2].end

\* a hit of a marker survives in a text where a demote pattern of the marker
\* matches, and another match of the marker was dropped
C11_Witness ==
    \E ta \in DetectedAtomics :
        LET entry == DictGet(rx_index[ta[1]], ta[2].marker_id, <<<<>>, <<>>>>)
        IN  /\ \E d \in Range(entry[2]) : FindIter(d, input_text) # <<>>
            /\ \E p \in Range(entry[1]) :
                   \E match \in Range(FindIter(p, input_text)) :
                       /\ match[1] < match[2]
                       /\ should_demote_match(input_text, match[1], match[2], entry[2])

----------------------------------------------------------------------------
(* Composed span containment, sem_core.py *)

\* the window size at which the loop over window_size breaks for the start
\* sentence i0, or 0 when no window from i0 gives a hit
RECURSIVE FirstWindowSize(_, _, _, _, _, _)
FirstWindowSize(text, sentences, atomics, marker, i0, window_size) ==
    IF window_size > MarkerSpanPolicy(marker).max_sentence_span THEN 0
    ELSE IF WindowHit(text, sentences, atomics, marker, i0, window_size) # <<>>
         THEN window_size
         ELSE FirstWindowSize(text, sentences, atomics, marker, i0, window_size + 1)

\* the atomic hits counted in the window of sentences i0..iR for a marker
WindowChildren(sentences, atomics, marker, i0, iR) ==
    {a \in Range(atomics) :
        /\ \E c \in Range(marker.composed_of) : c.marker_id = a.marker_id
        /\ FirstSentenceWith(sentences, (a.start + a.end) \div 2) \in i0..iR}

\* the composed hits of call t, each with its marker, its policy, and the
\* atomic hits counted in the window that produced it
ComposedWindows(t) ==
    LET sentences == sentence_boundaries(input_text)
        atomics == atomic_annotations[t]
    IN  UNION { { [hit |-> WindowHit(input_text, sentences, atomics, marker, i0,
                               FirstWindowSize(input_text, sentences, atomics, marker, i0, 1))[1],
                   marker |-> marker,
                   policy |-> MarkerSpanPolicy(marker),
                   total_children |->
                       DictGet(WindowCounts(sentences, atomics, marker.composed_of, i0,
                                   Min(Len(sentences) - 1,
                                       i0 + FirstWindowSize(input_text, sentences, atomics,
                                                            marker, i0, 1) - 1)),
                               "total_children", 0),
                   children |-> WindowChildren(sentences, atomics, marker, i0,
                                   Min(Len(sentences) - 1,
                                       i0 + FirstWindowSize(input_text, sentences, atomics,
                                                            marker, i0, 1) - 1))] :
                  i0 \in {k \in 0..(Len(sentences) - 1) :
                            FirstWindowSize(input_text, sentences, atomics, marker, k, 1) > 0} } :
                marker \in {m \in Range(CanonComposed(canon[t])) : m.composed_of # <<>>} }

\* the policies the containment is stated for
ContainmentPolicy(policy) ==
    \/ policy.mode \in {"sentence_union", "clause_union"}
    \/ policy.window_tokens[1] <= 0 /\ 0 <= policy.window_tokens[2]

\* C12: for every composed hit compose emits under sentence_union,
\* clause_union, or anchor_window with window_tokens[0] <= 0 <= window_tokens[1],
\* the midpoint of every atomic child hit counted in the window that produced
\* the hit lies inside the hit's [start, end)
C12_ChildrenContained ==
    \A t \in {c \in Calls : pc[c] \in {"composed", "returned"}} :
        \A w \in ComposedWindows(t) :
            (w.hit \in Range(composed_annotations[t]) /\ ContainmentPolicy(w.policy))
                => \A a \in w.children :
                       /\ w.hit.start <= (a.start + a.end) \div 2
                       /\ (a.start + a.end) \div 2 < w.hit.end

----------------------------------------------------------------------------
(* Thresholds of composition *)

\* weights.composed of the bundle
ComposedDefaults(weights_cfg) == DictGet(weights_cfg, "composed", <<>>)

\* the min_children threshold of a marker: the bundle default, 1 when the
\* bundle has none (the markers of the model declare no min_children)
MinChildrenOf(marker, weights_cfg) ==
    DictGet(ComposedDefaults(weights_cfg), "min_children", 1)

\* the min_score threshold of a marker: its own when it declares one, else
\* the bundle default, 0.6 when the bundle has none
MinScoreOf(marker, weights_cfg) ==
    IF marker.min_score # 0 THEN marker.min_score
    ELSE DictGet(ComposedDefaults(weights_cfg), "min_score", 600)

\* C13: every composed hit the analysis emits comes from a window with
\* total_children >= min_children and score >= min_score, each threshold
\* being the marker's own value or else the default of weights.composed
\* (1 and 0.6 when the bundle gives none)
C13_Thresholds ==
    \A t \in {c \in Calls : pc[c] \in {"composed", "returned"}} :
        \A w \in ComposedWindows(t) :
            w.hit \in Range(composed_annotations[t])
                => /\ w.total_children >= MinChildrenOf(w.marker, weights[t])
                   /\ w.hit.score >= MinScoreOf(w.marker, weights[t])

----------------------------------------------------------------------------
(* The two expression evaluators on one expression: eval_activation of
   sem_core.py and LD35Model._evaluate_expression.  In PyEval a BinOp is
   [node |-> "BinOp", op, left, right] with op "Add" or "Sub", and
   [node |-> "Call"] is a call of a name the context does not bind. *)

NameNode(id) == [node |-> "Name", id |-> id]
ConstNode(value) == [node |-> "Constant", value |-> value]
CompareNode(left, ops, comparators) ==
    [node |-> "Compare", left |-> left, ops |-> ops, comparators |-> comparators]
BoolOpNode(op, values) == [node |-> "BoolOp", op |-> op, values |-> values]
NotNode(operand) == [node |-> "Not", operand |-> operand]

\* "ATO_A + 1"
SumNode == [node |-> "BinOp", op |-> "Add", left |-> NameNode("ATO_A"),
            right |-> ConstNode(1000)]

\* the operands of the comparisons: ATO_A, X, 0, 1, ATO_A + 1, f()
Operands ==
    {NameNode("ATO_A"), NameNode("X"), ConstNode(0), ConstNode(1000), SumNode,
     [node |-> "Call"]}

\* "l op r"; "In" is the operator "in", which is not a key of OPS
SimpleCompares ==
    {CompareNode(l, <<op>>, <<r>>) :
        l \in Operands, r \in Operands, op \in {"GtE", "Eq", "Lt", "In"}}

\* "1 > 2 > r" and "1 < 2 < r"
ChainCompares ==
    {CompareNode(ConstNode(1000), <<op, op>>, <<ConstNode(2000), r>>) :
        r \in Operands, op \in {"Gt", "Lt"}}

\* the operands of and / or / not
Clauses ==
    {Cmp("ATO_A", "GtE", 1000), Cmp("X", "Eq", 0),
     CompareNode([node |-> "Call"], <<"Gt">>, <<ConstNode(0)>>),
     CompareNode(SumNode, <<"Gt">>, <<ConstNode(0)>>)}

Expressions ==
    SimpleCompares \cup ChainCompares \cup Operands
    \cup {BoolOpNode(op, <<c1, c2>>) : op \in {"And", "Or"}, c1 \in Clauses, c2 \in Clauses}
    \cup {NotNode(c) : c \in Clauses}
    \cup {[node |-> "Empty"], [node |-> "SyntaxError"]}

Environments ==
    { <<>>,
      << <<"ATO_A", 1000>>, <<"total_children", 1000>> >>,
      << <<"ATO_A", 0>>, <<"total_children", 0>> >> }

EvalInit ==
    /\ ev_pc = "start"
    /\ ev_expr \in Expressions
    /\ ev_env \in Environments
    /\ ev_sem = "none"
    /\ ev_ld = "none"
    /\ ResolveIdle
    /\ AnalyzeIdle
    /\ LD35Idle
    /\ ChunkIdle
    /\ StorageIdle
    /\ SplitIdle

\* eval_activation(expr, env): every exception is caught inside
EvalActivation ==
    /\ ev_pc = "start"
    /\ ev_sem' = IF eval_activation(ev_expr, ev_env) THEN "true" ELSE "false"
    /\ ev_pc' = "sem"
    /\ UNCHANGED <<ev_expr, ev_env, ev_ld, resolveVars, analyzeVars, ld35Vars, chunkVars,
                   storageVars, splitVars>>

\* self._evaluate_expression(expression, context): every exception is caught
\* inside
EvaluateExpression ==
    /\ ev_pc = "sem"
    /\ ev_ld' = IF evaluate_expression(TRUE, ev_expr, ev_env) THEN "true" ELSE "false"
    /\ ev_pc' = "done"
    /\ UNCHANGED <<ev_expr, ev_env, ev_sem, resolveVars, analyzeVars, ld35Vars, chunkVars,
                   storageVars, splitVars>>

EvalNext == EvalActivation \/ EvaluateExpression

SpecEval == EvalInit /\ [][EvalNext]_vars

\* the grammar: literals, names, the six comparisons, and / or / not
RECURSIVE InGrammar(_)
InGrammar(expr) ==
    CASE expr.node \in {"Name", "Constant"} -> TRUE
      [] expr.node = "Compare" ->
            /\ InGrammar(expr.left)
            /\ \A i \in 1..Len(expr.ops) : OpKnown(expr.ops[i])
            /\ \A i \in 1..Len(expr.comparators) : InGrammar(expr.comparators[i])
      [] expr.node = "BoolOp" -> \A i \in 1..Len(expr.values) : InGrammar(expr.values[i])
      [] expr.node = "Not" -> InGrammar(expr.operand)
      [] OTHER -> FALSE

\* C14: in both evaluators an expression that does not parse or holds a
\* construct outside the grammar (literals, names, comparisons, and / or / not)
\* anywhere in it evaluates to false, and the evaluation never raises
C14_OnlyGrammar ==
    (ev_pc = "done" /\ ev_expr.node # "Empty" /\ ~InGrammar(ev_expr))
        => (ev_sem = "false" /\ ev_ld = "false")

\* the expression with every name the environment lacks replaced by 0
RECURSIVE ZeroUnbound(_, _)
ZeroUnbound(expr, env) ==
    CASE expr.node = "Name" -> IF DictHas(env, expr.id) THEN expr ELSE ConstNode(0)
      [] expr.node = "Compare" ->
            CompareNode(ZeroUnbound(expr.left, env), expr.ops,
                        [i \in 1..Len(expr.comparators) |->
                            ZeroUnbound(expr.comparators[i], env)])
      [] expr.node = "BoolOp" ->
            BoolOpNode(expr.op, [i \in 1..Len(expr.values) |-> ZeroUnbound(expr.values[i], env)])
      [] expr.node = "Not" -> NotNode(ZeroUnbound(expr.operand, env))
      [] OTHER -> expr

\* the names of an expression
RECURSIVE NamesOf(_)
NamesOf(expr) ==
    CASE expr.node = "Name" -> {expr.id}
      [] expr.node = "Compare" ->
            NamesOf(expr.left) \cup UNION {NamesOf(expr.comparators[i]) :
                                              i \in 1..Len(expr.comparators)}
      [] expr.node = "BoolOp" -> UNION {NamesOf(expr.values[i]) : i \in 1..Len(expr.values)}
      [] expr.node = "Not" -> NamesOf(expr.operand)
      [] expr.node = "BinOp" -> NamesOf(expr.left) \cup NamesOf(expr.right)
      [] OTHER -> {}

\* C15: in eval_activation a name the environment does not bind evaluates to
\* 0: the expression gives the result of the expression with that name
\* replaced by the literal 0 ("X == 0" is true, "X >= 1" is false)
C15_UnboundIsZero ==
    ev_pc \in {"sem", "done"}
        => /\ ev_sem = IF eval_activation(ZeroUnbound(ev_expr, ev_env), ev_env)
                       THEN "true" ELSE "false"
           /\ (ev_expr = Cmp("X", "Eq", 0) => ev_sem = "true")
           /\ (ev_expr = CompareNode(NameNode("X"), <<"GtE">>, <<ConstNode(1000)>>)
                   => ev_sem = "false")

\* eval_activation has run on "X == 0" in an environment without X, and on
\* an expression over an unbound name that gives true
C15_Witness ==
    /\ ev_pc = "done"
    /\ ev_expr = Cmp("X", "Eq", 0)
    /\ ~DictHas(ev_env, "X")
    /\ ev_sem = "true"

----------------------------------------------------------------------------
(* Bundle loading *)

\* one of the three resource files is present and does not parse
SomeUnparseable(res) ==
    \E f \in {res.canon_file, res.promotion_file, res.weights_file} : f.state = "unparseable"

\* C16: loading the bundle fails with an error surfaced to the caller if and
\* only if one of the three resource files (canonical markers, promotion
\* mapping, weights) is present but does not parse; an absent file gives an
\* empty structure, an unparseable one is never taken for an empty structure
C16_LoadFailsIffUnparseable ==
    \A t \in Calls :
        pc[t] \notin {"off", "start"}
            => ((pc[t] = "raised") <=> SomeUnparseable(resources))

----------------------------------------------------------------------------
(* Families *)

Families == {"ATO", "SEM", "CLU", "MEMA", "DEESC"}

\* C17: every annotation of the analysis output has its family in
\* {ATO, SEM, CLU, MEMA, DEESC}; a marker id with any other prefix (ENT_X)
\* gets the family SEM, and a DEESC_ id gets DEESC
C17_FamilyInSet ==
    \A ra \in Returned :
        /\ ra[2].family \in Families
        /\ IdPrefix(ra[2].marker_id) \notin Families => ra[2].family = "SEM"
        /\ IdPrefix(ra[2].marker_id) = "DEESC" => ra[2].family = "DEESC"

----------------------------------------------------------------------------
(* Duplicates *)

\* the key of remove_duplicate_annotations
SameKey(a, b) == a.start = b.start /\ a.end = b.end /\ a.marker_id = b.marker_id

\* C18: remove_duplicate_annotations returns exactly one annotation for each
\* (start, end, marker) key of its input, and the one it keeps has the highest
\* score among the duplicates, whatever their order in the input
C18_DedupKeepsBest ==
    rpc = "post"
        => LET unique == remove_duplicate_annotations(anns)
           IN  \A a \in Range(anns) :
                   /\ Cardinality({i \in 1..Len(unique) : SameKey(unique[i], a)}) = 1
                   /\ \A i \in 1..Len(unique) :
                          SameKey(unique[i], a) => unique[i].score >= a.score

----------------------------------------------------------------------------
(* chunk_text, utils/chunking.py.  A chunk is
   [text, start_offset, end_offset], the tuple of the source. *)

MaxChunkText == 5
MaxChunkSize == 4
MaxOverlap == 3

\* the turns of the loop of chunk_text that are followed; a call that returns
\* makes at most len(text) turns
MaxTurns == 8

\* the break points in the order the loop tries them; the first is the
\* four characters backslash, n, backslash, n of the source's string literal
Boundaries ==
    << <<"\\", "n", "\\", "n">>, <<".", " ">>, <<"!", " ">>, <<"?", " ">>,
       <<";", " ">>, <<":", " ">> >>

\* text.rfind(boundary, lo, hi): the last index i with lo <= i and
\* i + len(boundary) <= hi at which boundary stands, or -1
RFindIn(text, boundary, lo, hi) ==
    LET at == {i \in lo..(Min(hi, Len(text)) - Len(boundary)) :
                 Slice(text, i, i + Len(boundary)) = boundary}
    IN  IF at = {} THEN -1 ELSE CHOOSE i \in at : \A k \in at : k <= i

\* the loop over the boundaries from index k, with its break: chunk_end
RECURSIVE BreakPoint(_, _, _, _)
BreakPoint(text, search_start, end, k) ==
    IF k > Len(Boundaries) THEN end
    ELSE LET last_boundary == RFindIn(text, Boundaries[k], search_start, end)
         IN  IF last_boundary # -1 THEN last_boundary + Len(Boundaries[k])
             ELSE BreakPoint(text, search_start, end, k + 1)

\* end of the chunk that begins at start
ChunkEnd(text, start, size, ovl) ==
    LET end == start + size
        search_start == end - ovl
    IN  IF end >= Len(text) THEN Len(text)
        ELSE IF search_start > start THEN BreakPoint(text, search_start, end, 1)
        ELSE end

\* text[a:b] of the source for any integers a and b: a negative index counts
\* from the end, and both are clipped to 0..len(text)
PySlice(text, a, b) ==
    LET clip(x) == IF x < 0 THEN Max(0, x + Len(text)) ELSE Min(x, Len(text))
    IN  Slice(text, clip(a), clip(b))

Chunk(text, start, end) ==
    [text |-> PySlice(text, start, end), start_offset |-> start, end_offset |-> end]

ChunkInit ==
    /\ ch_pc = "start"
    /\ ch_text \in SeqsUpTo({"a", ".", " "}, MaxChunkText)
    /\ chunk_size \in 1..MaxChunkSize
    /\ overlap \in 0..MaxOverlap
    /\ ch_start = 0
    /\ chunks = <<>>
    /\ ResolveIdle
    /\ AnalyzeIdle
    /\ LD35Idle
    /\ EvalIdle
    /\ StorageIdle
    /\ SplitIdle

\* entry: a text of at most chunk_size characters is returned as one chunk;
\* an empty text that is longer than chunk_size never enters the loop
ChunkEntry ==
    /\ ch_pc = "start"
    /\ IF Len(ch_text) <= chunk_size
       THEN /\ chunks' = <<Chunk(ch_text, 0, Len(ch_text))>>
            /\ ch_pc' = "done"
       ELSE /\ chunks' = <<>>
            /\ ch_pc' = IF 0 < Len(ch_text) THEN "loop" ELSE "done"
    /\ ch_start' = 0
    /\ UNCHANGED <<ch_text, chunk_size, overlap, resolveVars, analyzeVars, ld35Vars, evalVars,
                   storageVars, splitVars>>

\* one turn of "while start < text_len"
ChunkStep ==
    /\ ch_pc = "loop"
    /\ ch_start < Len(ch_text)
    /\ Len(chunks) < MaxTurns
    /\ chunks' = Append(chunks, Chunk(ch_text, ch_start,
                                      ChunkEnd(ch_text, ch_start, chunk_size, overlap)))
    /\ ch_start' = ch_start + chunk_size
    /\ ch_pc' = IF ch_start' >= Len(ch_text) THEN "done" ELSE "loop"
    /\ UNCHANGED <<ch_text, chunk_size, overlap, resolveVars, analyzeVars, ld35Vars, evalVars,
                   storageVars, splitVars>>

ChunkNext == ChunkEntry \/ ChunkStep

SpecChunk == ChunkInit /\ [][ChunkNext]_vars

\* C19: for every text, chunk_size >= 1 and overlap >= 0 the chunks
\* chunk_text returns cover the text: the first starts at 0, the last ends at
\* len(text), each starts at or before the end of the one before it, and the
\* text of each is text[start_offset:end_offset]
C19_ChunksCover ==
    ch_pc = "done"
        => /\ chunks # <<>>
           /\ chunks[1].start_offset = 0
           /\ chunks[Len(chunks)].end_offset = Len(ch_text)
           /\ \A i \in 2..Len(chunks) : chunks[i].start_offset <= chunks[i - 1].end_offset
           /\ \A i \in 1..Len(chunks) :
                  chunks[i].text = Slice(ch_text, chunks[i].start_offset, chunks[i].end_offset)

----------------------------------------------------------------------------
(* DocumentStorage, core/storage.py.  A file is [exists, content]; what a
   load returns is [found, value], found being FALSE for None.  A text is a
   sequence of characters, "SURROGATE" standing for a lone surrogate code
   point, which the utf-8 codec refuses to encode. *)

DocIds == {"d1", "d2"}

NoDocFile == [exists |-> FALSE, content |-> <<>>]
DocFile(content) == [exists |-> TRUE, content |-> content]
None == [found |-> FALSE, value |-> <<>>]
Some(value) == [found |-> TRUE, value |-> value]

\* the texts handed to save_original_text
StoredTexts ==
    { <<>>, <<"a", "\n", "b">>, <<"a", "\r", "b">>, <<"a", "\r", "\n">>, <<"SURROGATE">> }

\* the lists handed to save_annotations
StoredAnnotations ==
    { <<>>,
      << [start |-> 0, end |-> 1, marker_id |-> "ATO_A", family |-> "ATO", score |-> 700] >>,
      << [start |-> 0, end |-> 1, marker_id |-> "ATO_A", family |-> "ATO", score |-> 700],
         [start |-> 0, end |-> 2, marker_id |-> "SEM_A", family |-> "SEM", score |-> 900] >> }

\* text.encode("utf-8") succeeds
Encodable(text) == "SURROGATE" \notin Range(text)

\* f.read() of a file opened in text mode with the default newline=None:
\* "\r\n" and "\r" are read as "\n"
RECURSIVE UniversalNewlines(_)
UniversalNewlines(content) ==
    IF content = <<>> THEN <<>>
    ELSE IF Head(content) = "\r"
         THEN IF Len(content) > 1 /\ content[2] = "\n"
              THEN <<"\n">> \o UniversalNewlines(SubSeq(content, 3, Len(content)))
              ELSE <<"\n">> \o UniversalNewlines(Tail(content))
         ELSE <<Head(content)>> \o UniversalNewlines(Tail(content))

\* json.dump({"annotations": [ann.dict() for ann in annotations]}, f)
DumpAnnotations(annotations) == [annotations |-> annotations]

\* [Annotation(**ann) for ann in data["annotations"]]
ParseAnnotations(data) == data.annotations

\* load_original_text
load_original_text(files, doc_id) ==
    IF files[doc_id].exists THEN Some(UniversalNewlines(files[doc_id].content)) ELSE None

\* load_annotations
load_annotations(files, doc_id) ==
    IF files[doc_id].exists THEN Some(ParseAnnotations(files[doc_id].content)) ELSE None

StorageInit ==
    /\ st_pc = "on"
    /\ originals = [d \in DocIds |-> NoDocFile]
    /\ annotation_files = [d \in DocIds |-> NoDocFile]
    /\ saved_text = [d \in DocIds |-> None]
    /\ saved_anns = [d \in DocIds |-> None]
    /\ loaded = <<>>
    /\ ResolveIdle
    /\ AnalyzeIdle
    /\ LD35Idle
    /\ EvalIdle
    /\ ChunkIdle
    /\ SplitIdle

\* save_original_text: open(path, 'w') empties the file, f.write(text) fills
\* it; a text that cannot be encoded raises in f.write, the file stays empty
\* and the call returns False
SaveOriginalText(doc_id, text) ==
    /\ st_pc = "on"
    /\ IF Encodable(text)
       THEN /\ originals' = [originals EXCEPT ![doc_id] = DocFile(text)]
            /\ saved_text' = [saved_text EXCEPT ![doc_id] = Some(text)]
       ELSE /\ originals' = [originals EXCEPT ![doc_id] = DocFile(<<>>)]
            /\ UNCHANGED saved_text
    /\ UNCHANGED <<st_pc, annotation_files, saved_anns, loaded, resolveVars, analyzeVars,
                   ld35Vars, evalVars, chunkVars, splitVars>>

LoadOriginalText(doc_id) ==
    /\ st_pc = "on"
    /\ loaded' = <<[kind |-> "text", doc_id |-> doc_id,
                    returned |-> load_original_text(originals, doc_id)]>>
    /\ UNCHANGED <<st_pc, originals, annotation_files, saved_text, saved_anns, resolveVars,
                   analyzeVars, ld35Vars, evalVars, chunkVars, splitVars>>

\* save_annotations
SaveAnnotations(doc_id, annotations) ==
    /\ st_pc = "on"
    /\ annotation_files' =
           [annotation_files EXCEPT ![doc_id] = DocFile(DumpAnnotations(annotations))]
    /\ saved_anns' = [saved_anns EXCEPT ![doc_id] = Some(annotations)]
    /\ UNCHANGED <<st_pc, originals, saved_text, loaded, resolveVars, analyzeVars, ld35Vars,
                   evalVars, chunkVars, splitVars>>

LoadAnnotations(doc_id) ==
    /\ st_pc = "on"
    /\ loaded' = <<[kind |-> "annotations", doc_id |-> doc_id,
                    returned |-> load_annotations(annotation_files, doc_id)]>>
    /\ UNCHANGED <<st_pc, originals, annotation_files, saved_text, saved_anns, resolveVars,
                   analyzeVars, ld35Vars, evalVars, chunkVars, splitVars>>

\* delete_document: unlink(missing_ok=True) on every file of the document
DeleteDocument(doc_id) ==
    /\ st_pc = "on"
    /\ originals' = [originals EXCEPT ![doc_id] = NoDocFile]
    /\ annotation_files' = [annotation_files EXCEPT ![doc_id] = NoDocFile]
    /\ saved_text' = [saved_text EXCEPT ![doc_id] = None]
    /\ saved_anns' = [saved_anns EXCEPT ![doc_id] = None]
    /\ UNCHANGED <<st_pc, loaded, resolveVars, analyzeVars, ld35Vars, evalVars, chunkVars,
                   splitVars>>

StorageNext ==
    \E doc_id \in DocIds :
        \/ \E text \in StoredTexts : SaveOriginalText(doc_id, text)
        \/ LoadOriginalText(doc_id)
        \/ \E annotations \in StoredAnnotations : SaveAnnotations(doc_id, annotations)
        \/ LoadAnnotations(doc_id)
        \/ DeleteDocument(doc_id)

SpecStorage == StorageInit /\ [][StorageNext]_vars

\* C20: after any sequence of saves and deletes, load_original_text(d) returns
\* exactly the text of the most recent successful save_original_text(d, text)
\* since the last delete_document(d), None if there is none, and
\* load_annotations(d) likewise returns a list equal to the one last saved
C20_RoundTrip ==
    st_pc = "on"
        => \A doc_id \in DocIds :
               /\ load_original_text(originals, doc_id) = saved_text[doc_id]
               /\ load_annotations(annotation_files, doc_id) = saved_anns[doc_id]

----------------------------------------------------------------------------
(* Duplicate atomic hits *)

\* no two positions of a hit list hold the same (start, end, marker_id)
DistinctKeys(hits) ==
    \A i, j \in 1..Len(hits) :
        i # j => ~(/\ hits[i].start = hits[j].start
                   /\ hits[i].end = hits[j].end
                   /\ hits[i].marker_id = hits[j].marker_id)

\* C21: the atomic hit list that detect_atomics hands to compose and to
\* resolve_overlaps holds no two hits with the same (start, end, marker_id),
\* also when several detect patterns of one marker match the same span
C21_NoDuplicateAtomics ==
    \A t \in Calls :
        pc[t] \in {"detected", "composed", "returned"}
            => DistinctKeys(atomic_annotations[t])

\* the same for the pattern fallback of LD35Model: seen_keys keeps its atomic
\* list free of duplicates
LD35AtomicsDistinct ==
    ld_pc \notin {"off", "start"} => DistinctKeys(ld_atomic)

----------------------------------------------------------------------------
(* The activation environment of compose, sem_core.py *)

\* the number of hits of marker id among the atomics of sentences i0..iR
HitCount(sentences, atomics, id, i0, iR) ==
    Cardinality({i \in 1..Len(atomics) :
                    /\ atomics[i].marker_id = id
                    /\ FirstSentenceWith(sentences, (atomics[i].start + atomics[i].end) \div 2)
                           \in i0..iR})

\* the windows for which call t evaluates the activation expression: those
\* the loop over window_size reaches before its break, with a child in them
EvaluatedWindows(t) ==
    LET sentences == sentence_boundaries(input_text)
        atomics == atomic_annotations[t]
        reached(marker, i0) ==
            LET first == FirstWindowSize(input_text, sentences, atomics, marker, i0, 1)
            IN  {k \in 1..MarkerSpanPolicy(marker).max_sentence_span : first = 0 \/ k <= first}
        pairs(marker) ==
            {p \in (0..(Len(sentences) - 1)) \X (1..MarkerSpanPolicy(marker).max_sentence_span) :
                p[2] \in reached(marker, p[1])}
    IN  UNION { { [marker |-> marker, i0 |-> p[1], window_size |-> p[2],
                   iR |-> Min(Len(sentences) - 1, p[1] + p[2] - 1),
                   counts |-> WindowCounts(sentences, atomics, marker.composed_of, p[1],
                                           Min(Len(sentences) - 1, p[1] + p[2] - 1)),
                   hit |-> WindowHit(input_text, sentences, atomics, marker, p[1], p[2])] :
                  p \in pairs(marker) } :
                marker \in {m \in Range(CanonComposed(canon[t])) : m.composed_of # <<>>} }

\* C22: compose evaluates the activation expression of a composed marker in
\* an environment that binds every child id to its count in the window,
\* total_children to the sum of the counts and score to the score of the
\* window; a marker with the activation "score >= 0.5" gets a hit from
\* exactly the windows whose score is at least 0.5
C22_ActivationEnv ==
    \A t \in {c \in Calls : pc[c] \in {"composed", "returned"}} :
        \A w \in EvaluatedWindows(t) :
            DictGet(w.counts, "total_children", 0) > 0
                => LET env == CountsEnv(w.counts)
                       sentences == sentence_boundaries(input_text)
                       score == WindowScore(w.counts, WeightsMap(<<>>, w.marker.composed_of))
                   IN  /\ \A c \in Range(w.marker.composed_of) :
                              DictGet(env, c.marker_id, -1)
                                  = 1000 * HitCount(sentences, atomic_annotations[t],
                                                    c.marker_id, w.i0, w.iR)
                       /\ DictGet(env, "total_children", -1)
                              = 1000 * SumSeq([k \in 1..Len(w.marker.composed_of) |->
                                            HitCount(sentences, atomic_annotations[t],
                                                     w.marker.composed_of[k].marker_id,
                                                     w.i0, w.iR)])
                       /\ DictGet(env, "score", -1) = score
                       /\ MarkerActivation(w.marker) = ScoreAtLeastHalf
                              => IF score >= 500
                                 THEN /\ w.hit # <<>>
                                      /\ w.hit[1] \in Range(composed_annotations[t])
                                 ELSE w.hit = <<>>

\* the part of C22 the code meets: the counts and total_children of the
\* environment
CountsBound ==
    \A t \in {c \in Calls : pc[c] \in {"composed", "returned"}} :
        \A w \in EvaluatedWindows(t) :
            DictGet(w.counts, "total_children", 0) > 0
                => LET env == CountsEnv(w.counts)
                       sentences == sentence_boundaries(input_text)
                   IN  /\ \A c \in Range(w.marker.composed_of) :
                              DictGet(env, c.marker_id, -1)
                                  = 1000 * HitCount(sentences, atomic_annotations[t],
                                                    c.marker_id, w.i0, w.iR)
                       /\ DictGet(env, "total_children", -1)
                              = 1000 * SumSeq([k \in 1..Len(w.marker.composed_of) |->
                                            HitCount(sentences, atomic_annotations[t],
                                                     w.marker.composed_of[k].marker_id,
                                                     w.i0, w.iR)])

----------------------------------------------------------------------------
(* sentence_union spans *)

\* the indices of the sentences that hold the midpoint of a hit of the set
ChildSentences(sentences, children) ==
    {FirstSentenceWith(sentences, (a.start + a.end) \div 2) : a \in children}

\* C23: under the span policy sentence_union a composed hit runs exactly from
\* the start of the first sentence that holds the midpoint of a contributing
\* child hit to the end of the last such sentence, and no hit is emitted
\* when these sentences span more than max_sentence_span (no policy of the
\* bundles declares the fallback anchor_window)
C23_SentenceUnionExact ==
    \A t \in {c \in Calls : pc[c] \in {"composed", "returned"}} :
        \A w \in ComposedWindows(t) :
            (w.hit \in Range(composed_annotations[t]) /\ w.policy.mode = "sentence_union")
                => LET sentences == sentence_boundaries(input_text)
                       ids == ChildSentences(sentences, w.children)
                       lo == CHOOSE i \in ids : \A k \in ids : i <= k
                       hi == CHOOSE i \in ids : \A k \in ids : k <= i
                   IN  /\ w.hit.start = sentences[lo + 1][1]
                       /\ w.hit.end = sentences[hi + 1][2]
                       /\ hi - lo + 1 <= w.policy.max_sentence_span

----------------------------------------------------------------------------
(* sentence_boundaries on its own, sem_core.py *)

MaxSplitLen == 4

\* the characters of the texts handed to sentence_boundaries
SplitChars == {"a", ".", " ", "\n", "\r", ")"}

SplitInit ==
    /\ sb_pc = "start"
    /\ sb_text \in SeqsUpTo(SplitChars, MaxSplitLen)
    /\ sb_out = <<>>
    /\ ResolveIdle
    /\ AnalyzeIdle
    /\ LD35Idle
    /\ EvalIdle
    /\ ChunkIdle
    /\ StorageIdle

\* out = sentence_boundaries(text)
SentenceBoundaries ==
    /\ sb_pc = "start"
    /\ sb_out' = sentence_boundaries(sb_text)
    /\ sb_pc' = "done"
    /\ UNCHANGED <<sb_text, resolveVars, analyzeVars, ld35Vars, evalVars, chunkVars,
                   storageVars>>

SplitNext == SentenceBoundaries

SpecSplit == SplitInit /\ [][SplitNext]_vars

\* the text has a sentence ender or a double newline
HasBreak(text) ==
    \/ \E i \in 1..Len(text) : text[i] \in Enders
    \/ \E i \in 1..(Len(text) - 1) : text[i] = "\n" /\ text[i + 1] = "\n"

\* C24: the spans sentence_boundaries returns cover the whole input: the
\* first span starts at 0, each span starts where the one before it ends,
\* the last span ends at len(text), and a text with no sentence ender and
\* no double newline gives the single span (0, len(text))
C24_SpansCover ==
    sb_pc = "done"
        => /\ sb_out # <<>>
           /\ sb_out[1][1] = 0
           /\ \A k \in 1..(Len(sb_out) - 1) : sb_out[k + 1][1] = sb_out[k][2]
           /\ sb_out[Len(sb_out)][2] = Len(sb_text)
           /\ ~HasBreak(sb_text) => sb_out = << <<0, Len(sb_text)>> >>

\* what the code does give: spans in increasing order that end at
\* len(text), the first of them starting at 0
SpansOrdered ==
    (sb_pc = "done" /\ sb_out # <<>>)
        => /\ sb_out[1][1] = 0
           /\ \A k \in 1..Len(sb_out) : sb_out[k][1] <= sb_out[k][2]
           /\ \A k \in 1..(Len(sb_out) - 1) : sb_out[k][2] <= sb_out[k + 1][1]
           /\ sb_out[Len(sb_out)][2] = Len(sb_text)

----------------------------------------------------------------------------
(* Midpoints on a sentence boundary *)

\* the atomic hits of call t whose midpoint is the offset at which sentence
\* k ends and sentence k + 1 begins, each with k
BoundaryHits(t) ==
    LET sentences == sentence_boundaries(input_text)
    IN  {p \in Range(atomic_annotations[t]) \X (0..(Len(sentences) - 2)) :
            /\ sentences[p[2] + 1][2] = (p[1].start + p[1].end) \div 2
            /\ sentences[p[2] + 2][1] = (p[1].start + p[1].end) \div 2}

\* C25: an atomic hit whose midpoint (start + end) // 2 is the offset at
\* which one sentence ends and the next begins is put in per_sent of the left
\* (earlier) of the two sentences
C25_BoundaryGoesLeft ==
    \A t \in {c \in Calls : pc[c] \in {"composed", "returned"}} :
        \A p \in BoundaryHits(t) :
            p[1] \in Range(PerSentence(sentence_boundaries(input_text),
                                       atomic_annotations[t], p[2]))

\* what the code does: such a hit is put in the right (later) sentence
BoundaryGoesRight ==
    \A t \in {c \in Calls : pc[c] \in {"composed", "returned"}} :
        \A p \in BoundaryHits(t) :
            p[1] \in Range(PerSentence(sentence_boundaries(input_text),
                                       atomic_annotations[t], p[2] + 1))

----------------------------------------------------------------------------
(* Repeated and missing ids in the canonical file *)

\* C26: when the canonical file has several records with one id, the
\* analysis uses the first of them and ignores the later ones, and a record
\* without an id is dropped without raising: a call on a parseable canonical
\* file does not raise, and its atomic and composed hits are those of the
\* file with the later records of an id and the records without an id
\* removed
C26_FirstIdWins ==
    \A t \in Calls :
        resources.canon_file.state = "object"
            => LET markers == FirstOfEachId(resources.canon_file.content, {})
                   atomics == detect_atomics(input_text, compile_atomic_regex(markers))
               IN  /\ pc[t] # "raised"
                   /\ pc[t] \in {"detected", "composed", "returned"}
                          => atomic_annotations[t] = atomics
                   /\ pc[t] \in {"composed", "returned"}
                          => composed_annotations[t]
                                 = compose(input_text, markers, atomics, promotion[t],
                                           weights[t])

----------------------------------------------------------------------------
(* The loop of resolve_overlaps *)

\* C27: at every step of the loop of resolve_overlaps the kept list is
\* pairwise non-overlapping and the candidate of the step overlaps at most one
\* kept hit, so that a hit that has replaced a kept hit overlaps no other
\* kept hit
C27_SingleOverlap ==
    rpc = "loop"
        => /\ PairwiseDisjoint(kept)
           /\ cur_idx <= Len(anns) => Cardinality(OverlapIdx(kept, anns[cur_idx])) <= 1

\* the third of three hits has replaced the second in a kept list of two
C27_Witness ==
    /\ rpc = "loop"
    /\ cur_idx = 4
    /\ Len(kept) = 2
    /\ kept[2] = anns[3]
    /\ anns[2] # anns[3]
    /\ Overlaps(anns[3], anns[2])

\* the same over the lists analyze_text hands to resolve_overlaps: after every
\* prefix of the sorted list the kept list is pairwise non-overlapping and
\* the next candidate overlaps at most one kept hit
ResolveStepsSound(a) ==
    LET s == SortedForResolve(a)
    IN  \A n \in 0..Len(s) :
            LET k == ResolveLoop(<<>>, SubSeq(s, 1, n))
            IN  /\ PairwiseDisjoint(k)
                /\ n < Len(s) => Cardinality(OverlapIdx(k, s[n + 1])) <= 1

AnalyzeResolveSound ==
    \A t \in Calls :
        pc[t] = "returned"
            => ResolveStepsSound(LocalAtomics(t) \o composed_annotations[t])

----------------------------------------------------------------------------
(* What resolve_overlaps drops *)

\* C28: resolve_overlaps drops a hit only in favour of a hit that survives:
\* every hit of the input that is absent from the output overlaps a hit of
\* the output
C28_DroppedOverlapsKept ==
    rpc = "done"
        => \A a \in Range(anns) :
               a \notin Range(final_anns)
                   => \E b \in Range(final_anns) : Overlaps(a, b)

\* what does hold: a hit that is dropped overlaps a hit that was in the kept
\* list when it was dropped, i.e. a hit of the input
DroppedOverlapsInput ==
    rpc = "done"
        => \A a \in Range(anns) :
               a \notin Range(final_anns)
                   => \E b \in Range(anns) : b # a /\ Overlaps(a, b)

----------------------------------------------------------------------------
(* Repeated composed hits *)

\* C29: compose emits no two composed hits with the same
\* (start, end, marker_id): the hits of one composed marker that come from
\* different starting sentences have different spans, for every
\* max_sentence_span >= 1
C29_NoDuplicateComposed ==
    \A t \in Calls :
        pc[t] \in {"composed", "returned"} => DistinctKeys(composed_annotations[t])

----------------------------------------------------------------------------
(* Termination of chunk_text *)

\* how far below zero the chunk_size handed to chunk_text goes
MaxBelowZero == 1

\* chunk_text called with any chunk_size the options can carry
ChunkAnyInit ==
    /\ ch_pc = "start"
    /\ ch_text \in SeqsUpTo({"a", ".", " "}, MaxChunkText)
    /\ chunk_size \in (-MaxBelowZero)..MaxChunkSize
    /\ overlap \in 0..MaxOverlap
    /\ ch_start = 0
    /\ chunks = <<>>
    /\ ResolveIdle
    /\ AnalyzeIdle
    /\ LD35Idle
    /\ EvalIdle
    /\ StorageIdle
    /\ SplitIdle

\* the call keeps running until it returns
SpecChunkLive == ChunkAnyInit /\ [][ChunkNext]_vars /\ WF_vars(ChunkNext)

\* every turn of the loop moves start forward
StartAdvances == [][ChunkStep => ch_start' > ch_start]_vars

\* C30: chunk_text returns for every text and every chunk_size and overlap,
\* chunk_size <= 0 included: each turn of the loop moves start forward, and
\* the call reaches its return
C30_Terminates == StartAdvances /\ <>(ch_pc = "done")

\* a call with chunk_size >= 1 has returned after at most len(text) turns
ReturnsWhenPositive ==
    (chunk_size >= 1 /\ ch_pc = "loop") => Len(chunks) < Len(ch_text)


\* with chunk_size >= 1 the call does reach its return
TerminatesWhenPositive == (chunk_size >= 1) => <>(ch_pc = "done")

====
